---- MODULE Spec2Model ----
(***************************************************************************)
(* Request-identity and quota-resolution pipeline of the bubblelab-api     *)
(* server: authMiddleware (middleware/auth.ts) and the quota resolvers     *)
(* (services/subscription-validation.ts).                                  *)
(*                                                                         *)
(* JavaScript values are modelled as tagged records (JSVal).  A string is  *)
(* a sequence of characters; the words of the closed vocabularies          *)
(* (pro_plan, base_usage, ...) are single characters of the alphabet, and  *)
(* "u", ":", "," and " " are the characters the parsers look at.           *)
(***************************************************************************)
EXTENDS Integers, Sequences, FiniteSets, TLC

(***************************************************************************)
(* Bounds                                                                  *)
(***************************************************************************)
MaxCount == 2        \* largest count/usage figure the storage returns

(***************************************************************************)
(* JavaScript values                                                       *)
(***************************************************************************)
Undef == [t |-> "undef", s |-> <<>>, a |-> <<>>]
Num == [t |-> "num", s |-> <<>>, a |-> <<>>]
Str(x) == [t |-> "str", s |-> x, a |-> <<>>]
Arr(x) == [t |-> "arr", s |-> <<>>, a |-> x]

\* JavaScript truthiness: undefined and "" are falsy, an array (even an
\* empty one) and a non-zero number are truthy.
Truthy(v) == CASE v.t = "undef" -> FALSE
               [] v.t = "str" -> v.s # <<>>
               [] OTHER -> TRUE

\* x.length > 0 for a truthy x: defined for strings and arrays, undefined
\* (so the comparison is false) for a number.
LengthPositive(v) == CASE v.t = "str" -> Len(v.s) > 0
                       [] v.t = "arr" -> Len(v.a) > 0
                       [] OTHER -> FALSE

(***************************************************************************)
(* Closed vocabularies                                                     *)
(***************************************************************************)
PlanNames == {"free_user", "pro_plan", "pro_plus", "unlimited"}
FeatureNames == {"base_usage", "pro_usage", "unlimited_usage"}
PLAN_TYPE == {Str(<<p>>) : p \in PlanNames}
FEATURE_TYPE == {<<f>> : f \in FeatureNames}

AppType == {"NODEX", "BUBBLEPARSE", "BUBBLE_LAB"}

APP_PLAN_TO_MONTHLY_LIMITS ==
  [p \in PlanNames |->
     CASE p = "free_user" -> [executionLimit |-> 100, creditLimit |-> 5, webhookLimit |-> 1]
       [] p = "pro_plan" -> [executionLimit |-> 3000, creditLimit |-> 20, webhookLimit |-> 10]
       [] p = "pro_plus" -> [executionLimit |-> 99999999, creditLimit |-> 100, webhookLimit |-> 99999999]
       [] p = "unlimited" -> [executionLimit |-> 99999999, creditLimit |-> 99999999, webhookLimit |-> 99999999]]

APP_FEATURES_TO_MONTHLY_LIMITS ==
  [a \in AppType |->
     IF a = "BUBBLE_LAB"
       THEN [base_usage |-> 1, pro_usage |-> 20, unlimited_usage |-> 10000]
       ELSE [base_usage |-> 40, pro_usage |-> 400, unlimited_usage |-> 100000]]

devUserId == "dev-user"
devUserPlan == Str(<<"unlimited">>)
devUserFeatures == Arr(<< <<"base_usage">>, <<"pro_usage">>, <<"unlimited_usage">> >>)

(***************************************************************************)
(* String helpers of the parsers                                           *)
(***************************************************************************)
\* s.replace(/^u:/, '')
StripPrefix(s) ==
  IF Len(s) >= 2 /\ s[1] = "u" /\ s[2] = ":" THEN SubSeq(s, 3, Len(s)) ELSE s

RECURSIVE TrimLeft(_)
TrimLeft(s) == IF s # <<>> /\ Head(s) = " " THEN TrimLeft(Tail(s)) ELSE s

RECURSIVE TrimRight(_)
TrimRight(s) ==
  IF s # <<>> /\ s[Len(s)] = " " THEN TrimRight(SubSeq(s, 1, Len(s) - 1)) ELSE s

\* s.trim()
Trim(s) == TrimRight(TrimLeft(s))

\* s.split(','): the pieces between the commas, empty pieces included
RECURSIVE SplitComma(_, _, _)
SplitComma(s, cur, acc) ==
  IF s = <<>> THEN Append(acc, cur)
  ELSE IF Head(s) = "," THEN SplitComma(Tail(s), <<>>, Append(acc, cur))
  ELSE SplitComma(Tail(s), Append(cur, Head(s)), acc)

\* a plausible slip: the prefix is not stripped
MutParseClerkPlan(planString) ==
  IF ~Truthy(planString) THEN Str(<<"pro_plus">>) ELSE Str(planString.s)

parseClerkPlan(planString) ==
  IF ~Truthy(planString) THEN Str(<<"pro_plus">>)
  ELSE Str(StripPrefix(planString.s))

\* a plausible slip: only an absent claim, not an empty one, gets the default
MutParseClerkFeatures(featureString) ==
  IF featureString.t = "undef" THEN Arr(<< <<"unlimited_usage">> >>)
  ELSE LET parts == SplitComma(featureString.s, <<>>, <<>>)
       IN  Arr([i \in 1..Len(parts) |-> StripPrefix(Trim(parts[i]))])

parseClerkFeatures(featureString) ==
  IF ~Truthy(featureString) THEN Arr(<< <<"unlimited_usage">> >>)
  ELSE LET parts == SplitComma(featureString.s, <<>>, <<>>)
       IN  Arr([i \in 1..Len(parts) |-> StripPrefix(Trim(parts[i]))])

extractSubscriptionInfoFromPayload(payload) ==
  [appType |-> "BUBBLE_LAB",
   plan |-> parseClerkPlan(payload.pla),
   features |-> parseClerkFeatures(payload.fea)]

(***************************************************************************)
(* Inputs: credentials, headers, configuration, identity-service users     *)
(***************************************************************************)
Requests == {"r1", "r2"}
Subjects == {"u1", "u2"}
Null == "null"

\* issuer strings (one character each: the detector only looks them up)
IssuerBubbleLab == <<"https://clerk.bubblelab.ai">>
IssuerNodex == <<"https://clerk.nodex.dev">>
IssuerBubbleParse == <<"https://clerk.bubbleparse.dev">>
IssuerUnknown == <<"https://evil.example">>

PlaOptions ==
  {Undef, Str(<<>>), Str(<<"u", ":", "pro_plan">>), Str(<<"free_user">>),
   Str(<<"u", ":", "enterprise">>)}

FeaOptions ==
  {Undef, Str(<<>>),
   Str(<<"u", ":", "base_usage", ",", "u", ":", "pro_usage">>),
   Str(<<"u", ":", "pro_usage", ",", " ">>),
   Str(<<"base_usage", ",", " ", "u", ":", "pro_usage">>)}

NoToken ==
  [pla |-> Undef, fea |-> Undef, kind |-> "none", segs |-> 0,
   decodes |-> FALSE, iss |-> Undef, sub |-> "", sig |-> "none"]

Jwt(iss, sub, pla, fea, sig) ==
  [pla |-> pla, fea |-> fea, kind |-> "jwt", segs |-> 3,
   decodes |-> TRUE, iss |-> iss, sub |-> sub, sig |-> sig]

\* credentials that verify: every claim combination for one issuer, and one
\* claim set for each of the other issuers
GoodTokens ==
  {Jwt(Str(IssuerBubbleLab), s, p, f, "good") :
     s \in Subjects, p \in PlaOptions, f \in FeaOptions}
  \cup
  {Jwt(Str(i), "u1", Str(<<"u", ":", "pro_plan">>), Undef, "good") :
     i \in {IssuerNodex, IssuerBubbleParse}}

\* recognized issuer, verification fails
BadSigTokens ==
  {Jwt(Str(i), "u1", Str(<<"u", ":", "pro_plan">>), Undef, g) :
     i \in {IssuerBubbleLab, IssuerNodex},
     g \in {"expired", "bad_signature"}}

\* three segments, payload decodes, issuer unrecognized or missing
UnknownIssuerTokens ==
  {Jwt(i, "u1", Str(<<"u", ":", "pro_plan">>), Undef, g) :
     i \in {Str(IssuerUnknown), Undef}, g \in {"good", "bad_signature"}}

\* wrong segment count, or a middle segment that does not decode
MalformedTokens ==
  {[pla |-> Undef, fea |-> Undef, kind |-> "jwt", segs |-> n,
    decodes |-> FALSE, iss |-> Undef, sub |-> "", sig |-> "malformed"] :
     n \in {2, 3}}

Tokens == GoodTokens \cup BadSigTokens \cup UnknownIssuerTokens \cup MalformedTokens
AuthHeaders == {NoToken} \cup Tokens

NoHeader == "<no header>"
XUserIds == {NoHeader, "", "tester-1"}

\* testUserId || devUserId: an absent header and an empty value are falsy
HeaderValueOr(x, default) == IF x = NoHeader \/ x = "" THEN default ELSE x

\* identity-service user records
User(pp, pf, bp, bf) ==
  [exists |-> TRUE, privPlan |-> pp, privFeatures |-> pf,
   pubPlan |-> bp, pubFeatures |-> bf, pubOther |-> "kept"]
NoUser ==
  [exists |-> FALSE, privPlan |-> Undef, privFeatures |-> Undef,
   pubPlan |-> Undef, pubFeatures |-> Undef, pubOther |-> "kept"]

PrivPlanOptions == {Undef, Str(<<"unlimited">>), Str(<<"free_user">>), Str(<<"vip">>), Num}
PrivFeaturesOptions == {Undef, Arr(<<>>), Arr(<< <<"pro_usage">> >>), Arr(<< <<"beta">> >>)}
PubOptions ==
  {<<Undef, Undef>>,
   <<Str(<<"pro_plan">>), Arr(<< <<"base_usage">>, <<"pro_usage">> >>)>>,
   <<Str(<<"u", ":", "free_user">>), Arr(<<>>)>>}

UserOptions ==
  {User(pp, pf, Undef, Undef) : pp \in PrivPlanOptions, pf \in PrivFeaturesOptions}
  \cup {User(Undef, Undef, pb[1], pb[2]) : pb \in PubOptions}
  \cup {User(Str(<<"unlimited">>), Arr(<< <<"pro_usage">> >>), pb[1], pb[2]) : pb \in PubOptions}
  \cup {NoUser}

\* a user without overrides, whose public metadata was never synced
PlainUser == User(Undef, Undef, Undef, Undef)

AllTrue == [a \in AppType |-> TRUE]
AllFalse == [a \in AppType |-> FALSE]
OnlyBubbleLab == [a \in AppType |-> a = "BUBBLE_LAB"]
SecretConfigs == {AllTrue, AllFalse, OnlyBubbleLab}

\* per-tenant clients, and the shared default client under the key "default"
ClientKeys == AppType \cup {"default"}
ClientConfigs ==
  {[k \in ClientKeys |-> TRUE], [k \in ClientKeys |-> FALSE],
   [k \in ClientKeys |-> k = "default"]}

(***************************************************************************)
(* State                                                                   *)
(***************************************************************************)
VARIABLES
  isDev,        \* env.isDev
  secrets,      \* AppType -> is a Clerk secret key configured
  clients,      \* AppType or "default" -> is a Clerk client configured
  clerkUsers,   \* identity service: subject -> user record
  dbUsers,      \* users table: subject -> appType column, or Null (no row)
  usage,        \* storage: subject -> active webhooks, active crons,
                \*   monthlyUsageCount and total service cost
  pc,           \* task -> position in the code
  req,          \* request -> [auth, xuid] headers
  loc,          \* request -> locals of authMiddleware
  cvars,        \* request -> variables set on the framework Context (c.set)
  store,        \* request -> AsyncLocalStorage store of its async chain
  resp,         \* request -> response returned by authMiddleware
  hist,         \* request -> what has been called so far
  q,            \* task -> locals of the quota resolvers
  subInfo,      \* task -> what its getSubscriptionInfo calls returned
  limitCall     \* a call of getMonthlyLimitForFeatures: arguments and result

\* the desktop shell: the preload bridge of the window (electron/preload.ts)
VARIABLES
  bridge,       \* which preload script the window has loaded
  apiCalls,     \* calls the renderer made on window.electronAPI, in order
  ipcCalls,     \* calls made on ipcRenderer, in order
  listeners,    \* listeners registered on ipcRenderer, in registration order
  cleanups      \* cleanup functions returned by on() that the renderer holds

\* the desktop shell: the main process (startup of the local backend and
\* of the window)
VARIABLES
  mainScript,      \* which main-process script runs
  mainPc,          \* position of the ready handler
  backendExists,   \* the backend entrypoint is on disk
  bunFound,        \* findBunExecutable() finds a runtime
  backendProcess,  \* the module variable backendProcess
  spawned,         \* a backend process was spawned
  probes,          \* readiness probes made so far
  probeOk,         \* some readiness probe succeeded
  elapsed,         \* time since waitForBackend started, in intervals
  timedOut,        \* waitForBackend rejected with the timeout
  mainWindow,      \* the module variable mainWindow
  windows,         \* the windows created, in order, with what was known then
  quitting         \* app.quit() was called

\* the desktop shell: stopBackend() of the bun script
VARIABLES
  killed,            \* backendProcess.killed: a signal was delivered by kill()
  signals,           \* the signals delivered to the backend process, in order
  stopPc,            \* the promise of the last stopBackend() call
  forceKillTimeout,  \* the timer of the last stopBackend() call
  exitListener,      \* stopBackend registered a once('exit') listener
  stopCalls          \* calls of stopBackend()

apiVars == <<isDev, secrets, clients, clerkUsers, dbUsers, usage, pc, req, loc,
             cvars, store, resp, hist, q, subInfo, limitCall>>
preloadVars == <<bridge, apiCalls, ipcCalls, listeners, cleanups>>
stopVars == <<killed, signals, stopPc, forceKillTimeout, exitListener, stopCalls>>
mainVars == <<mainScript, mainPc, backendExists, bunFound, backendProcess,
              spawned, probes, probeOk, elapsed, timedOut, mainWindow, windows,
              quitting, stopVars>>
vars == <<apiVars, preloadVars, mainVars>>
\* what no step of the server pipeline changes
envVars == <<isDev, secrets, clients, usage, subInfo, limitCall, preloadVars,
             mainVars>>

\* no window has loaded a preload script
PreloadIdle ==
  /\ bridge = "none"
  /\ apiCalls = <<>>
  /\ ipcCalls = <<>>
  /\ listeners = <<>>
  /\ cleanups = {}

\* the main process before the app was launched, for a given script
MainLaunch(script) ==
  /\ mainScript = script
  /\ mainPc = "launch"
  /\ backendProcess = "null"
  /\ spawned = FALSE
  /\ probes = 0
  /\ probeOk = FALSE
  /\ elapsed = 0
  /\ timedOut = FALSE
  /\ mainWindow = "null"
  /\ windows = <<>>
  /\ quitting = FALSE
  /\ killed = FALSE
  /\ signals = <<>>
  /\ stopPc = "none"
  /\ forceKillTimeout = "none"
  /\ exitListener = FALSE
  /\ stopCalls = 0

\* no desktop shell runs
MainIdle ==
  /\ MainLaunch("none")
  /\ backendExists = FALSE
  /\ bunFound = FALSE

NoIdentity == [appType |-> Null, set |-> FALSE, userId |-> "",
               userPlan |-> Undef, userFeatures |-> Undef]
Identity(userId, plan, features, appType) ==
  [appType |-> appType, set |-> TRUE, userId |-> userId,
   userPlan |-> plan, userFeatures |-> features]

NoCvars == [appType |-> Null, userId |-> "", userPlan |-> Undef,
            userFeatures |-> Undef, userTier |-> Undef]
NoResp == [status |-> 0, error |-> <<>>]
NoLoc == [appType |-> Null, userId |-> "",
          subscriptionInfo |-> [appType |-> Null, plan |-> Undef, features |-> Undef],
          finalPlan |-> Undef, finalFeatures |-> Undef, clerkClient |-> FALSE,
          clerkUser |-> NoUser]
NoHist == [path |-> "none", verifyCalls |-> 0, nextCalls |-> 0, getUserCalls |-> 0,
           updateCalls |-> 0, upsertCalls |-> 0, infraFailures |-> 0,
           verifyError |-> <<>>, ctxAtNext |-> NoIdentity, observed |-> NoIdentity]
NoReq == [auth |-> NoToken, xuid |-> NoHeader]
NoUsage == [webhooks |-> 0, crons |-> 0, executions |-> 0, cost |-> 0]
NoSnap == [limit |-> -1, currentUsage |-> -1]
NoInfo == [appType |-> Null, plan |-> Undef, features |-> Undef]
NoQ == [cur |-> "none", appType |-> Null, userId |-> "",
        webhooks |-> NoSnap, executions |-> NoSnap, cost |-> -1,
        fn |-> "none", caller |-> "none",
        info |-> NoInfo, winfo |-> NoInfo, einfo |-> NoInfo, credits |-> NoSnap,
        whCount |-> -1, cronCount |-> -1, execCount |-> -1,
        failed |-> {}, reads |-> {}, idCalls |-> 0, outcome |-> "none"]
NotCalled == "not called"
\* a JavaScript number: finite with value n, or -Infinity
JsNumber(n) == [n |-> n, finite |-> TRUE]
NegInfinity == [n |-> 0, finite |-> FALSE]
NoLimitCall == [appType |-> Null, features |-> <<>>, called |-> FALSE,
                result |-> JsNumber(0)]
NoSubInfo == [caller |-> "none", withC |-> NotCalled, ambient |-> NotCalled]

(***************************************************************************)
(* Collaborators                                                           *)
(***************************************************************************)
\* config/clerk-apps: issuer -> tenant, Null when no configured issuer matches
detectAppTypeFromIssuer(issuer) ==
  CASE issuer = IssuerBubbleLab -> "BUBBLE_LAB"
    [] issuer = IssuerNodex -> "NODEX"
    [] issuer = IssuerBubbleParse -> "BUBBLEPARSE"
    [] OTHER -> Null

\* config/clerk-apps: TRUE when a secret key is configured for the tenant
getSecretKeyForApp(appType) == secrets[appType]

\* utils/clerk-client: TRUE when a client exists for the tenant, else null
getClerkClient(appType) == clients[appType]

\* utils/clerk-client: the shared default client, possibly null
clerk == clients["default"]

\* utils/request-context: the store of the calling async chain, if any
getCurrentUserInfo(r) == store[r]

\* @clerk/backend verifyToken: the payload of a well-formed credential
\* signed by the tenant's key, else it throws with a reason
VerifyOk(token) == token.segs = 3 /\ token.decodes /\ token.sig = "good"
VerifyPayload(token) == [pla |-> token.pla, fea |-> token.fea, sub |-> token.sub]

(***************************************************************************)
(* authMiddleware                                                          *)
(***************************************************************************)
\* a plausible slip: the catch of a decode error returns the default tenant
MutDetectDecodeDefault(token) ==
  IF token.segs # 3 THEN "BUBBLE_LAB"
  ELSE IF ~token.decodes THEN "BUBBLE_LAB"
  ELSE LET issuer == IF Truthy(token.iss) THEN token.iss.s ELSE <<>>
       IN  detectAppTypeFromIssuer(issuer)

\* a plausible slip: a wrong segment count is treated as a decode failure
MutDetectWrongSegments(token) ==
  IF token.segs # 3 THEN Null
  ELSE IF ~token.decodes THEN Null
  ELSE LET issuer == IF Truthy(token.iss) THEN token.iss.s ELSE <<>>
       IN  detectAppTypeFromIssuer(issuer)

MutDetectAppType(token) ==
  IF token.segs # 3 THEN "BUBBLE_LAB"
  ELSE IF ~token.decodes THEN Null
  ELSE LET issuer == IF Truthy(token.iss) THEN token.iss.s ELSE <<>>
           appType == detectAppTypeFromIssuer(issuer)
       IN  IF appType = Null THEN "BUBBLE_LAB" ELSE appType

detectAppType(token) ==
  IF token.segs # 3 THEN "BUBBLE_LAB"
  ELSE IF ~token.decodes THEN Null
  ELSE LET issuer == IF Truthy(token.iss) THEN token.iss.s ELSE <<>>
       IN  detectAppTypeFromIssuer(issuer)

\* private-metadata override of the plan (auth.ts 172-191)
MutFinalPlan(subscriptionInfo, clerkUser) ==
  subscriptionInfo.plan

finalPlan(subscriptionInfo, clerkUser) ==
  IF clerkUser.exists /\ Truthy(clerkUser.privPlan)
    THEN IF clerkUser.privPlan \in PLAN_TYPE THEN clerkUser.privPlan
         ELSE Str(<<"unlimited">>)
    ELSE subscriptionInfo.plan

\* private-metadata override of the features (auth.ts 173, 181-197): only
\* looked at inside the branch taken when a private plan is present
finalFeatures(subscriptionInfo, clerkUser) ==
  IF clerkUser.exists /\ Truthy(clerkUser.privPlan)
     /\ Truthy(clerkUser.privFeatures) /\ LengthPositive(clerkUser.privFeatures)
    THEN clerkUser.privFeatures
    ELSE subscriptionInfo.features

UnauthorizedAppMessage ==
  <<"Unauthorized app, please configure the appropriate issuer IDs">>
MutSecretMissingMessage(appType) ==
  <<"Clerk secret key not configured for app: ", "BUBBLE_LAB">>
SecretMissingMessage(appType) ==
  <<"Clerk secret key not configured for app: ", appType>>
MutAuthError(message) == <<"Invalid or expired token">>
AuthError(message) == <<"Invalid or expired token, ">> \o message

Bump(h, field) == [h EXCEPT ![field] = @ + 1]

\* return c.json({error}, 401)
Reject(r, error) ==
  /\ resp' = [resp EXCEPT ![r] = [status |-> 401, error |-> error]]
  /\ pc' = [pc EXCEPT ![r] = "done"]

\* a plausible slip: the identity is kept in one store shared by all requests
MutEstablish(r, id, tier) ==
  /\ cvars' = [cvars EXCEPT ![r] =
        [appType |-> id.appType, userId |-> id.userId,
         userPlan |-> id.userPlan, userFeatures |-> id.userFeatures,
         userTier |-> tier]]
  /\ store' = [x \in Requests |-> id]

\* a plausible slip: the X-User-ID header replaces the subject on every path
MutEstablishHonorsHeader(r, id, tier) ==
  LET id2 == [id EXCEPT !.userId = HeaderValueOr(req[r].xuid, @)] IN
  /\ cvars' = [cvars EXCEPT ![r] =
        [appType |-> id2.appType, userId |-> id2.userId,
         userPlan |-> id2.userPlan, userFeatures |-> id2.userFeatures,
         userTier |-> tier]]
  /\ store' = [store EXCEPT ![r] = id2]

\* c.set(...) of the identity, runWithContext(identity, callback)
Establish(r, id, tier) ==
  /\ cvars' = [cvars EXCEPT ![r] =
        [appType |-> id.appType, userId |-> id.userId,
         userPlan |-> id.userPlan, userFeatures |-> id.userFeatures,
         userTier |-> tier]]
  /\ store' = [store EXCEPT ![r] = id]

\* a plausible slip: next() is called outside the runWithContext callback
MutCallNext(h, ctx) == [h EXCEPT !.nextCalls = @ + 1, !.ctxAtNext = NoIdentity]

\* next() called from inside the runWithContext callback
CallNext(h, ctx) == [h EXCEPT !.nextCalls = @ + 1, !.ctxAtNext = ctx]

\* a plausible slip: the bypass always takes the default tenant
MutDevBypassDefaultTenant(r, appType) ==
  LET userId == HeaderValueOr(req'[r].xuid, devUserId)
      id == Identity(userId, devUserPlan, devUserFeatures, "BUBBLE_LAB")
  IN  /\ Establish(r, id, IF req'[r].auth.kind = "none" THEN Undef ELSE devUserPlan)
      /\ hist' = [hist EXCEPT ![r] = CallNext([@ EXCEPT !.path = "bypass"], id)]
      /\ pc' = [pc EXCEPT ![r] = "handler"]
      /\ UNCHANGED resp

\* a plausible slip: the X-User-ID header is not read
MutDevBypass(r, appType) ==
  LET userId == devUserId
      id == Identity(userId, devUserPlan, devUserFeatures, appType)
  IN  /\ Establish(r, id, IF req'[r].auth.kind = "none" THEN Undef ELSE devUserPlan)
      /\ hist' = [hist EXCEPT ![r] = CallNext([@ EXCEPT !.path = "bypass"], id)]
      /\ pc' = [pc EXCEPT ![r] = "handler"]
      /\ UNCHANGED resp

\* Dev Bypass (auth.ts 86-106 and 123-145)
DevBypass(r, appType) ==
  LET userId == HeaderValueOr(req'[r].xuid, devUserId)
      id == Identity(userId, devUserPlan, devUserFeatures, appType)
  IN  /\ Establish(r, id, IF req'[r].auth.kind = "none" THEN Undef ELSE devUserPlan)
      /\ hist' = [hist EXCEPT ![r] = CallNext([@ EXCEPT !.path = "bypass"], id)]
      /\ pc' = [pc EXCEPT ![r] = "handler"]
      /\ UNCHANGED resp

\* if (env.isDev) of the no-credential branch (auth.ts 86)
MutBypassWithoutCredential == TRUE
BypassWithoutCredential == isDev

\* if (env.isDev) of the missing-secret branch (auth.ts 123)
MutBypassWithoutSecret == TRUE
BypassWithoutSecret == isDev

\* authMiddleware from its entry to its first await (auth.ts 81-152)
AuthStart(r, headers, xuids) ==
  /\ pc[r] = "idle"
  /\ \E hdr \in headers, x \in xuids :
       /\ req' = [req EXCEPT ![r] = [auth |-> hdr, xuid |-> x]]
       /\ IF hdr.kind = "none"
            THEN /\ IF BypassWithoutCredential
                      THEN DevBypass(r, "BUBBLE_LAB")
                      ELSE /\ Reject(r, <<"Unauthorized">>)
                           /\ UNCHANGED <<cvars, store, hist>>
                 /\ UNCHANGED loc
            ELSE LET appType == detectAppType(hdr) IN
                 IF appType = Null
                   THEN /\ Reject(r, AuthError(UnauthorizedAppMessage))
                        /\ UNCHANGED <<cvars, store, hist, loc>>
                 ELSE IF ~getSecretKeyForApp(appType)
                   THEN /\ loc' = [loc EXCEPT ![r].appType = appType]
                        /\ IF BypassWithoutSecret
                             THEN DevBypass(r, appType)
                             ELSE /\ Reject(r, AuthError(SecretMissingMessage(appType)))
                                  /\ UNCHANGED <<cvars, store, hist>>
                 ELSE /\ loc' = [loc EXCEPT ![r].appType = appType]
                      /\ hist' = [hist EXCEPT ![r] = Bump(@, "verifyCalls")]
                      /\ pc' = [pc EXCEPT ![r] = "verify"]
                      /\ UNCHANGED <<cvars, store, resp>>
  /\ UNCHANGED <<envVars, clerkUsers, dbUsers, q>>

\* the runWithContext callback up to its first await (auth.ts 224-231), or
\* straight to next() when there is no Clerk client (auth.ts 227, 287)
EnterCallback(r, h, id) ==
  IF loc'[r].clerkClient
    THEN /\ hist' = [hist EXCEPT ![r] = Bump(h, "getUserCalls")]
         /\ pc' = [pc EXCEPT ![r] = "getUser2"]
    ELSE /\ hist' = [hist EXCEPT ![r] = CallNext(h, id)]
         /\ pc' = [pc EXCEPT ![r] = "handler"]

\* a plausible slip: the context is established with the values of the
\* claims, c with the final values
MutEstablishVerified(r, h) ==
  LET l == loc'[r]
      id == Identity(l.userId, l.subscriptionInfo.plan,
                     l.subscriptionInfo.features, l.appType)
  IN  /\ cvars' = [cvars EXCEPT ![r] =
            [appType |-> l.appType, userId |-> l.userId,
             userPlan |-> l.finalPlan, userFeatures |-> l.finalFeatures,
             userTier |-> l.finalPlan]]
      /\ store' = [store EXCEPT ![r] = id]
      /\ EnterCallback(r, h, id)
      /\ UNCHANGED resp

\* auth.ts 209-223: the identity is set on c and the context is established
EstablishVerified(r, h) ==
  LET l == loc'[r]
      id == Identity(l.userId, l.finalPlan, l.finalFeatures, l.appType)
  IN  /\ Establish(r, id, l.finalPlan)
      /\ EnterCallback(r, h, id)
      /\ UNCHANGED resp

\* a plausible slip: the subject of an unverified credential is set on c
\* before the rejection
MutVerifyReturn(r) ==
  /\ pc[r] = "verify"
  /\ LET token == req[r].auth IN
     IF ~VerifyOk(token)
       THEN /\ Reject(r, AuthError(<<token.sig>>))
            /\ hist' = [hist EXCEPT ![r].verifyError = <<token.sig>>]
            /\ cvars' = [cvars EXCEPT ![r].userId = token.sub]
            /\ UNCHANGED <<loc, store>>
       ELSE LET payload == VerifyPayload(token)
                subscriptionInfo == extractSubscriptionInfoFromPayload(payload)
                clerkClient == getClerkClient(loc[r].appType)
                h == [hist[r] EXCEPT !.path = "verified"]
            IN  /\ loc' = [loc EXCEPT ![r] =
                      [@ EXCEPT !.userId = payload.sub,
                                !.subscriptionInfo = subscriptionInfo,
                                !.finalPlan = subscriptionInfo.plan,
                                !.finalFeatures = subscriptionInfo.features,
                                !.clerkClient = clerkClient]]
                /\ IF clerkClient
                     THEN /\ hist' = [hist EXCEPT ![r] = Bump(h, "getUserCalls")]
                          /\ pc' = [pc EXCEPT ![r] = "getUser1"]
                          /\ UNCHANGED <<cvars, store, resp>>
                     ELSE EstablishVerified(r, h)
  /\ UNCHANGED <<envVars, clerkUsers, dbUsers, req, q>>

\* verifyToken settles (auth.ts 150-164, 290-294)
VerifyReturn(r) ==
  /\ pc[r] = "verify"
  /\ LET token == req[r].auth IN
     IF ~VerifyOk(token)
       THEN /\ Reject(r, AuthError(<<token.sig>>))
            /\ hist' = [hist EXCEPT ![r].verifyError = <<token.sig>>]
            /\ UNCHANGED <<loc, cvars, store>>
       ELSE LET payload == VerifyPayload(token)
                subscriptionInfo == extractSubscriptionInfoFromPayload(payload)
                clerkClient == getClerkClient(loc[r].appType)
                h == [hist[r] EXCEPT !.path = "verified"]
            IN  /\ loc' = [loc EXCEPT ![r] =
                      [@ EXCEPT !.userId = payload.sub,
                                !.subscriptionInfo = subscriptionInfo,
                                !.finalPlan = subscriptionInfo.plan,
                                !.finalFeatures = subscriptionInfo.features,
                                !.clerkClient = clerkClient]]
                /\ IF clerkClient
                     THEN /\ hist' = [hist EXCEPT ![r] = Bump(h, "getUserCalls")]
                          /\ pc' = [pc EXCEPT ![r] = "getUser1"]
                          /\ UNCHANGED <<cvars, store, resp>>
                     ELSE EstablishVerified(r, h)
  /\ UNCHANGED <<envVars, clerkUsers, dbUsers, req, q>>

\* a plausible slip: a failed lookup resets the identity to the defaults
MutLookupFailedDefaults(r) ==
  /\ loc' = [loc EXCEPT ![r] =
        [@ EXCEPT !.finalPlan = Str(<<"pro_plus">>),
                  !.finalFeatures = Arr(<< <<"unlimited_usage">> >>)]]
  /\ EstablishVerified(r, Bump(hist[r], "infraFailures"))

\* a plausible slip: the lookup failure is left to the outer catch
MutOverrideLookupFailed(r) ==
  /\ Reject(r, AuthError(<<"clerk unavailable">>))
  /\ hist' = [hist EXCEPT ![r] = Bump(@, "infraFailures")]
  /\ UNCHANGED <<loc, cvars, store>>

\* catch of the override lookup (auth.ts 200-206): log and continue
OverrideLookupFailed(r) ==
  /\ loc' = loc
  /\ EstablishVerified(r, Bump(hist[r], "infraFailures"))

\* the first getUser settles (auth.ts 169-223)
GetUser1Return(r) ==
  /\ pc[r] = "getUser1"
  /\ \/ OverrideLookupFailed(r)
     \/ LET clerkUser == clerkUsers[loc[r].userId] IN
        /\ loc' = [loc EXCEPT ![r] =
              [@ EXCEPT !.finalPlan = finalPlan(loc[r].subscriptionInfo, clerkUser),
                        !.finalFeatures = finalFeatures(loc[r].subscriptionInfo, clerkUser)]]
        /\ EstablishVerified(r, hist[r])
  /\ UNCHANGED <<envVars, clerkUsers, dbUsers, req, q>>

\* a plausible slip: the metadata is written on every request
MutNeedsUpdate(subscriptionInfo, clerkUser) == TRUE

\* JSON.stringify(currentFeatures) !== JSON.stringify(subscriptionInfo.features)
\*   || subscriptionInfo.plan !== clerkUser.publicMetadata?.plan  (auth.ts 234-239)
needsUpdate(subscriptionInfo, clerkUser) ==
  LET currentFeatures ==
        IF Truthy(clerkUser.pubFeatures) THEN clerkUser.pubFeatures ELSE Arr(<<>>)
  IN  \/ currentFeatures # subscriptionInfo.features
      \/ subscriptionInfo.plan # clerkUser.pubPlan

\* catch of the upsert block (auth.ts 280-287): log, then next()
UpsertBlockFailed(r) ==
  /\ hist' = [hist EXCEPT ![r] = CallNext(Bump(@, "infraFailures"), store[r])]
  /\ pc' = [pc EXCEPT ![r] = "handler"]

\* a plausible slip: the plan in the context is refreshed from the second fetch
MutGetUser2Return(r) ==
  /\ pc[r] = "getUser2"
  /\ \/ UpsertBlockFailed(r) /\ UNCHANGED <<loc, store>>
     \/ LET clerkUser == clerkUsers[loc[r].userId] IN
        /\ loc' = [loc EXCEPT ![r].clerkUser = clerkUser]
        /\ store' = [store EXCEPT ![r].userPlan =
                        finalPlan(loc[r].subscriptionInfo, clerkUser)]
        /\ IF ~clerkUser.exists
             THEN /\ hist' = [hist EXCEPT ![r] = CallNext(@, store[r])]
                  /\ pc' = [pc EXCEPT ![r] = "handler"]
           ELSE IF needsUpdate(loc[r].subscriptionInfo, clerkUser)
             THEN /\ hist' = [hist EXCEPT ![r] = Bump(@, "updateCalls")]
                  /\ pc' = [pc EXCEPT ![r] = "update"]
           ELSE /\ hist' = [hist EXCEPT ![r] = Bump(@, "upsertCalls")]
                /\ pc' = [pc EXCEPT ![r] = "upsert"]
  /\ UNCHANGED <<envVars, clerkUsers, dbUsers, req, cvars, resp, q>>

\* the second getUser settles (auth.ts 231-248)
GetUser2Return(r) ==
  /\ pc[r] = "getUser2"
  /\ \/ UpsertBlockFailed(r) /\ UNCHANGED loc
     \/ LET clerkUser == clerkUsers[loc[r].userId] IN
        /\ loc' = [loc EXCEPT ![r].clerkUser = clerkUser]
        /\ IF ~clerkUser.exists
             THEN /\ hist' = [hist EXCEPT ![r] = CallNext(@, store[r])]
                  /\ pc' = [pc EXCEPT ![r] = "handler"]
           ELSE IF needsUpdate(loc[r].subscriptionInfo, clerkUser)
             THEN /\ hist' = [hist EXCEPT ![r] = Bump(@, "updateCalls")]
                  /\ pc' = [pc EXCEPT ![r] = "update"]
           ELSE /\ hist' = [hist EXCEPT ![r] = Bump(@, "upsertCalls")]
                /\ pc' = [pc EXCEPT ![r] = "upsert"]
  /\ UNCHANGED <<envVars, clerkUsers, dbUsers, req, cvars, store, resp, q>>

\* updateUserMetadata settles (auth.ts 241-255)
UpdateReturn(r) ==
  /\ pc[r] = "update"
  /\ \/ UpsertBlockFailed(r) /\ UNCHANGED clerkUsers
     \/ /\ clerkUsers[loc[r].userId].exists
        /\ clerkUsers' = [clerkUsers EXCEPT ![loc[r].userId] =
              [@ EXCEPT !.pubFeatures = loc[r].subscriptionInfo.features,
                        !.pubPlan = loc[r].subscriptionInfo.plan,
                        !.pubOther = loc[r].clerkUser.pubOther]]
        /\ hist' = [hist EXCEPT ![r] = Bump(@, "upsertCalls")]
        /\ pc' = [pc EXCEPT ![r] = "upsert"]
  /\ UNCHANGED <<envVars, dbUsers, req, loc, cvars, store, resp, q>>

\* the users upsert settles (auth.ts 255-287)
UpsertReturn(r) ==
  /\ pc[r] = "upsert"
  /\ \/ UpsertBlockFailed(r) /\ UNCHANGED dbUsers
     \/ /\ dbUsers' = [dbUsers EXCEPT ![loc[r].userId] = loc[r].appType]
        /\ hist' = [hist EXCEPT ![r] = CallNext(@, store[r])]
        /\ pc' = [pc EXCEPT ![r] = "handler"]
  /\ UNCHANGED <<envVars, clerkUsers, req, loc, cvars, store, resp, q>>

\* the downstream handler reads the ambient context and responds; the
\* runWithContext callback returns and its store goes out of scope
HandlerReturn(r) ==
  /\ pc[r] = "handler"
  /\ hist' = [hist EXCEPT ![r].observed = getCurrentUserInfo(r)]
  /\ resp' = [resp EXCEPT ![r] = [status |-> 200, error |-> <<>>]]
  /\ store' = [store EXCEPT ![r] = NoIdentity]
  /\ pc' = [pc EXCEPT ![r] = "done"]
  /\ UNCHANGED <<envVars, clerkUsers, dbUsers, req, loc, cvars, q>>

(***************************************************************************)
(* One request through authMiddleware                                      *)
(***************************************************************************)
ApiTasks ==
  /\ pc = [r \in Requests |-> "idle"]
  /\ req = [r \in Requests |-> NoReq]
  /\ loc = [r \in Requests |-> NoLoc]
  /\ cvars = [r \in Requests |-> NoCvars]
  /\ store = [r \in Requests |-> NoIdentity]
  /\ resp = [r \in Requests |-> NoResp]
  /\ hist = [r \in Requests |-> NoHist]
  /\ q = [r \in Requests |-> NoQ]
  /\ subInfo = [r \in Requests |-> NoSubInfo]

InitTasks ==
  /\ ApiTasks
  /\ limitCall = NoLimitCall
  /\ PreloadIdle
  /\ MainIdle

Init ==
  /\ isDev \in BOOLEAN
  /\ secrets \in SecretConfigs
  /\ clients \in ClientConfigs
  /\ \E u \in UserOptions : clerkUsers = [s \in Subjects |-> IF s = "u1" THEN u ELSE PlainUser]
  /\ dbUsers = [s \in Subjects |-> Null]
  /\ usage = [s \in Subjects |-> NoUsage]
  /\ InitTasks

AuthSteps(r) ==
  \/ VerifyReturn(r)
  \/ GetUser1Return(r)
  \/ GetUser2Return(r)
  \/ UpdateReturn(r)
  \/ UpsertReturn(r)

Next ==
  \/ AuthStart("r1", AuthHeaders, XUserIds)
  \/ AuthSteps("r1")
  \/ HandlerReturn("r1")

Spec == Init /\ [][Next]_vars

(***************************************************************************)
(* Properties of authMiddleware                                            *)
(***************************************************************************)
Started(r) == pc[r] # "idle"
Rejected(r) == resp[r].status = 401
NothingConstructed(r) ==
  /\ store[r] = NoIdentity
  /\ cvars[r] = NoCvars
  /\ hist[r].nextCalls = 0
  /\ hist[r].ctxAtNext = NoIdentity

\* C1: in production, a request without an Authorization header is answered
\* 401 Unauthorized; no context is established, nothing is set on c and
\* next() is never invoked.
C1_NoCredentialProdRejected ==
  \A r \in Requests :
    (Started(r) /\ ~isDev /\ req[r].auth.kind = "none") =>
      /\ pc[r] = "done"
      /\ resp[r] = [status |-> 401, error |-> <<"Unauthorized">>]
      /\ NothingConstructed(r)

C1_Witness ==
  \E r \in Requests :
    /\ ~isDev /\ pc[r] = "done" /\ req[r].auth.kind = "none"
    /\ req[r].xuid = "tester-1" /\ Rejected(r)

\* C2: in production the handler only ever runs for a credential that was
\* verified, with the subject of that credential; never with the fabricated
\* identity of the Dev Bypass, whatever the secrets and the X-User-ID header.
C2_NoBypassInProduction ==
  \A r \in Requests :
    (~isDev /\ hist[r].nextCalls > 0) =>
      /\ hist[r].path = "verified"
      /\ hist[r].verifyCalls = 1
      /\ VerifyOk(req[r].auth)
      /\ hist[r].ctxAtNext.set
      /\ hist[r].ctxAtNext.userId = req[r].auth.sub

C2_Witness ==
  \E r \in Requests :
    /\ ~isDev /\ hist[r].nextCalls > 0 /\ req[r].xuid = "tester-1"
    /\ secrets = OnlyBubbleLab

\* the decoded issuer of a three-segment credential maps to no tenant
UnrecognizedIssuer(token) ==
  /\ token.kind = "jwt" /\ token.segs = 3 /\ token.decodes
  /\ detectAppTypeFromIssuer(IF Truthy(token.iss) THEN token.iss.s ELSE <<>>) = Null

\* C3: a credential whose issuer maps to no tenant is rejected and
\* verifyToken is never called for it, in development and in production.
C3_UnrecognizedIssuerRejectedBeforeVerify ==
  \A r \in Requests :
    (Started(r) /\ UnrecognizedIssuer(req[r].auth)) =>
      /\ hist[r].verifyCalls = 0
      /\ pc[r] = "done"
      /\ Rejected(r)
      /\ hist[r].nextCalls = 0

C3_Witness ==
  \E r \in Requests :
    /\ isDev /\ secrets = AllTrue /\ pc[r] = "done"
    /\ req[r].auth.iss = Str(IssuerUnknown) /\ req[r].auth.sig = "good"
    /\ Rejected(r)

Contains(seq, x) == \E i \in 1..Len(seq) : seq[i] = x

\* C4: when verifyToken throws, the request is answered 401 with an error
\* text that carries the reason, and the handler is not invoked.
C4_VerificationFailureRejected ==
  \A r \in Requests :
    (hist[r].verifyCalls = 1 /\ pc[r] # "verify" /\ ~VerifyOk(req[r].auth)) =>
      /\ pc[r] = "done"
      /\ Rejected(r)
      /\ Contains(resp[r].error, req[r].auth.sig)
      /\ hist[r].nextCalls = 0
      /\ store[r] = NoIdentity

C4_Witness ==
  \E r \in Requests :
    /\ isDev /\ pc[r] = "done" /\ hist[r].verifyCalls = 1
    /\ req[r].auth.sig = "expired" /\ Rejected(r)

\* C5: in production, a credential whose tenant is detected but has no
\* configured secret is rejected with an error naming the missing secret key
\* of that tenant; verifyToken is not called and the handler is not run.
C5_MissingSecretProdRejected ==
  \A r \in Requests :
    LET token == req[r].auth IN
    (Started(r) /\ ~isDev /\ token.kind = "jwt"
       /\ detectAppType(token) # Null /\ ~secrets[detectAppType(token)]) =>
      /\ pc[r] = "done"
      /\ resp[r] = [status |-> 401,
                    error |-> <<"Invalid or expired token, ",
                                "Clerk secret key not configured for app: ",
                                detectAppType(token)>>]
      /\ hist[r].verifyCalls = 0
      /\ hist[r].nextCalls = 0

C5_Witness ==
  \E r \in Requests :
    /\ ~isDev /\ pc[r] = "done" /\ secrets = OnlyBubbleLab
    /\ req[r].auth.iss = Str(IssuerNodex) /\ Rejected(r)

\* C6: once the credential has verified, no failure of the identity service
\* or of the database inside authMiddleware rejects the request: the context
\* is established and next() is invoked.
C6_InfraFailureNeverRejects ==
  \A r \in Requests :
    (hist[r].path = "verified") =>
      /\ ~Rejected(r)
      /\ pc[r] \in {"getUser1", "getUser2", "update", "upsert", "handler", "done"}
      /\ pc[r] # "getUser1" => hist[r].ctxAtNext.set \/ store[r].set
      /\ pc[r] \in {"handler", "done"} =>
           /\ hist[r].nextCalls = 1
           /\ hist[r].ctxAtNext.set
           /\ hist[r].ctxAtNext.userId = req[r].auth.sub

C6_Witness ==
  \E r \in Requests :
    /\ hist[r].path = "verified" /\ hist[r].infraFailures = 2
    /\ pc[r] = "done" /\ resp[r].status = 200

\* C7 (as claimed, for authMiddleware): when the lookup of the subject
\* succeeds and its private metadata holds a non-empty features list and no
\* plan, the identity in the context has the claims-derived plan and the
\* private features.
C7_FeaturesOnlyOverride ==
  \A r \in Requests :
    LET u == clerkUsers[loc[r].userId] IN
    (hist[r].path = "verified" /\ store[r].set /\ loc[r].clerkClient
       /\ hist[r].infraFailures = 0
       /\ u.exists /\ ~Truthy(u.privPlan)
       /\ u.privFeatures.t = "arr" /\ Len(u.privFeatures.a) > 0) =>
      /\ store[r].userPlan = loc[r].subscriptionInfo.plan
      /\ store[r].userFeatures = u.privFeatures

ValidPlan(v) == v \in PLAN_TYPE
ValidFeatures(v) ==
  /\ v.t = "arr" /\ Len(v.a) > 0
  /\ \A i \in 1..Len(v.a) : v.a[i] \in FEATURE_TYPE

\* C8 (as claimed): every identity placed in the request context has a plan
\* of PLAN_TYPE and a non-empty list of FEATURE_TYPE features.
C8_IdentityAlwaysValid ==
  \A r \in Requests :
    store[r].set => ValidPlan(store[r].userPlan) /\ ValidFeatures(store[r].userFeatures)

(***************************************************************************)
(* Quota resolvers (subscription-validation.ts)                            *)
(***************************************************************************)
Snap(limit, currentUsage) == [limit |-> limit, currentUsage |-> currentUsage]

MutFallbackNodex == Snap(APP_FEATURES_TO_MONTHLY_LIMITS["BUBBLE_LAB"].unlimited_usage, 0)

\* the fallback of getMonthlyLimitForPlan and getCurrentWebhookUsage
\* (subscription-validation.ts 175-181, 325-327)
FallbackNodex == Snap(APP_FEATURES_TO_MONTHLY_LIMITS["NODEX"].unlimited_usage, 0)

\* a plausible slip: the smallest allowance of the tenant instead of the largest
MutFallbackBubbleLab == Snap(APP_FEATURES_TO_MONTHLY_LIMITS["BUBBLE_LAB"].base_usage, 0)

\* the fallback of getCurrentExecutionUsage (subscription-validation.ts 375-377)
FallbackBubbleLab == Snap(APP_FEATURES_TO_MONTHLY_LIMITS["BUBBLE_LAB"].unlimited_usage, 0)

\* APP_PLAN_TO_MONTHLY_LIMITS[plan] is defined; reading a limit of an
\* undefined entry throws a TypeError
HasLimits(plan) == plan \in PLAN_TYPE
Limits(plan) == APP_PLAN_TO_MONTHLY_LIMITS[plan.s[1]]

DefaultInfo(appType) ==
  [appType |-> appType, plan |-> Str(<<"pro_plus">>),
   features |-> Arr(<< <<"unlimited_usage">> >>)]

\* contextSubscriptionInfo && contextSubscriptionInfo.appType
ContextUsable(ctx) == ctx.set /\ ctx.appType # Null
InfoFromContext(ctx) ==
  [appType |-> ctx.appType, plan |-> ctx.userPlan, features |-> ctx.userFeatures]

\* getUserSubscriptionInfo once the Clerk user is fetched
\* (subscription-validation.ts 208-265)
MutResolveFromUser(appType, clerkUser) ==
  IF ~clerkUser.exists THEN DefaultInfo(appType)
  ELSE IF Truthy(clerkUser.pubPlan) /\ clerkUser.pubPlan.t # "str"
    THEN DefaultInfo(appType)
  ELSE IF Truthy(clerkUser.privFeatures) /\ clerkUser.privFeatures.t = "str"
    THEN DefaultInfo(appType)
  ELSE [appType |-> appType,
        plan |-> IF Truthy(clerkUser.privPlan) THEN clerkUser.privPlan
                 ELSE parseClerkPlan(clerkUser.pubPlan),
        features |-> IF Truthy(clerkUser.privPlan) /\ Truthy(clerkUser.privFeatures)
                        /\ LengthPositive(clerkUser.privFeatures)
                       THEN clerkUser.privFeatures
                     ELSE IF Truthy(clerkUser.pubFeatures) THEN clerkUser.pubFeatures
                     ELSE Arr(<< <<"base_usage">> >>)]

ResolveFromUser(appType, clerkUser) ==
  IF ~clerkUser.exists THEN DefaultInfo(appType)
  ELSE IF Truthy(clerkUser.pubPlan) /\ clerkUser.pubPlan.t # "str"
    THEN DefaultInfo(appType)      \* planString.replace is not a function
  ELSE IF Truthy(clerkUser.privFeatures) /\ clerkUser.privFeatures.t = "str"
    THEN DefaultInfo(appType)      \* privateFeatures.join is not a function
  ELSE [appType |-> appType,
        plan |-> IF Truthy(clerkUser.privPlan) THEN clerkUser.privPlan
                 ELSE parseClerkPlan(clerkUser.pubPlan),
        features |-> IF Truthy(clerkUser.privFeatures)
                        /\ LengthPositive(clerkUser.privFeatures)
                       THEN clerkUser.privFeatures
                     ELSE IF Truthy(clerkUser.pubFeatures) THEN clerkUser.pubFeatures
                     ELSE Arr(<< <<"base_usage">> >>)]

\* where a task continues when its top-level resolver call has settled
CallerPc(qr) == IF qr.caller = "handler" THEN "handler" ELSE "done"

Finish(r, qr) ==
  /\ q' = [q EXCEPT ![r] = [qr EXCEPT !.outcome = "returned"]]
  /\ pc' = [pc EXCEPT ![r] = CallerPc(qr)]

\* getCurrentExecutionUsage up to its first await
\* (subscription-validation.ts 339-360)
StartExecutionUsage(r, qr) ==
  LET ctx == getCurrentUserInfo(r)
      qr1 == [qr EXCEPT !.reads = @ \cup {ctx}]
  IN  IF ContextUsable(ctx)
        THEN /\ q' = [q EXCEPT ![r] = [qr1 EXCEPT !.einfo = InfoFromContext(ctx)]]
             /\ pc' = [pc EXCEPT ![r] = "q_exec"]
        ELSE /\ q' = [q EXCEPT ![r] = [qr1 EXCEPT !.cur = "E"]]
             /\ pc' = [pc EXCEPT ![r] = "q_gusi_db"]

\* a plausible slip: the context is not consulted
MutStartWebhookUsage(r, qr) ==
  /\ q' = [q EXCEPT ![r] = [qr EXCEPT !.cur = "W"]]
  /\ pc' = [pc EXCEPT ![r] = "q_gusi_db"]

\* getCurrentWebhookUsage up to its first await
\* (subscription-validation.ts 276-297)
StartWebhookUsage(r, qr) ==
  LET ctx == getCurrentUserInfo(r)
      qr1 == [qr EXCEPT !.reads = @ \cup {ctx}]
  IN  IF ContextUsable(ctx)
        THEN /\ q' = [q EXCEPT ![r] = [qr1 EXCEPT !.winfo = InfoFromContext(ctx)]]
             /\ pc' = [pc EXCEPT ![r] = "q_wh"]
        ELSE /\ q' = [q EXCEPT ![r] = [qr1 EXCEPT !.cur = "W"]]
             /\ pc' = [pc EXCEPT ![r] = "q_gusi_db"]

\* getCurrentWebhookUsage returns snap to its caller
ReturnWebhookUsage(r, qr, snap) ==
  LET qr1 == [qr EXCEPT !.webhooks = snap]
  IN  IF qr.fn = "W" THEN Finish(r, qr1) ELSE StartExecutionUsage(r, qr1)

\* getCurrentExecutionUsage returns snap to getMonthlyLimitForPlan, which
\* awaits getTotalServiceCostForUser (subscription-validation.ts 149-152)
ReturnExecutionUsage(r, qr, snap) ==
  /\ q' = [q EXCEPT ![r] = [qr EXCEPT !.executions = snap]]
  /\ pc' = [pc EXCEPT ![r] = "q_cost"]

\* getUserSubscriptionInfo returns info to the resolver that awaited it
ReturnSubscriptionInfo(r, qr, info) ==
  CASE qr.cur = "M" -> StartWebhookUsage(r, [qr EXCEPT !.info = info])
    [] qr.cur = "W" -> /\ q' = [q EXCEPT ![r] = [qr EXCEPT !.winfo = info]]
                       /\ pc' = [pc EXCEPT ![r] = "q_wh"]
    [] qr.cur = "E" -> /\ q' = [q EXCEPT ![r] = [qr EXCEPT !.einfo = info]]
                       /\ pc' = [pc EXCEPT ![r] = "q_exec"]

\* a call of getMonthlyLimitForPlan (fn = "M") or getCurrentWebhookUsage
\* (fn = "W") up to its first await (subscription-validation.ts 121-146, 276-297)
QuotaCall(r, fn, caller, userId) ==
  LET qr == [NoQ EXCEPT !.fn = fn, !.caller = caller, !.userId = userId]
      ctx == getCurrentUserInfo(r)
  IN  IF fn = "W" THEN StartWebhookUsage(r, qr)
      ELSE IF ContextUsable(ctx)
        THEN StartWebhookUsage(r, [qr EXCEPT !.info = InfoFromContext(ctx),
                                             !.reads = @ \cup {ctx}])
        ELSE /\ q' = [q EXCEPT ![r] = [qr EXCEPT !.cur = "M", !.reads = @ \cup {ctx}]]
             /\ pc' = [pc EXCEPT ![r] = "q_gusi_db"]

\* db.query.users.findFirst settles (subscription-validation.ts 195-206, 254-265)
GusiDbReturn(r) ==
  /\ pc[r] = "q_gusi_db"
  /\ \/ ReturnSubscriptionInfo(r, [q[r] EXCEPT !.failed = @ \cup {<<q[r].cur, "db">>}],
                               DefaultInfo("BUBBLE_LAB"))
     \/ LET dbAppType == dbUsers[q[r].userId]
            appType == IF dbAppType = Null THEN "BUBBLE_LAB" ELSE dbAppType
        IN  /\ q' = [q EXCEPT ![r] = [@ EXCEPT !.appType = appType, !.idCalls = @ + 1]]
            /\ pc' = [pc EXCEPT ![r] = "q_gusi_clerk"]
  /\ UNCHANGED <<envVars, clerkUsers, dbUsers, req, loc, cvars, store, resp, hist>>

\* appClerk?.users.getUser settles (subscription-validation.ts 202-265)
GusiClerkReturn(r) ==
  /\ pc[r] = "q_gusi_clerk"
  /\ LET appType == q[r].appType
         appClerk == getClerkClient(appType) \/ clerk
     IN  \/ /\ appClerk
            /\ ReturnSubscriptionInfo(r, [q[r] EXCEPT !.failed = @ \cup {<<q[r].cur, "identity">>}],
                                      DefaultInfo(appType))
         \/ ReturnSubscriptionInfo(r, q[r],
              ResolveFromUser(appType,
                IF appClerk /\ q[r].userId \in Subjects
                  THEN clerkUsers[q[r].userId] ELSE NoUser))
  /\ UNCHANGED <<envVars, clerkUsers, dbUsers, req, loc, cvars, store, resp, hist>>

\* the rows of a subject; a subject the storage does not know has none
UsageOf(userId) == IF userId \in Subjects THEN usage[userId] ELSE NoUsage

\* the count of active webhooks settles (subscription-validation.ts 294-307, 319-328)
WebhookCountReturn(r) ==
  /\ pc[r] = "q_wh"
  /\ \/ ReturnWebhookUsage(r, [q[r] EXCEPT !.failed = @ \cup {<<"W", "webhooks">>}], FallbackNodex)
     \/ /\ q' = [q EXCEPT ![r].whCount = UsageOf(q[r].userId).webhooks]
        /\ pc' = [pc EXCEPT ![r] = "q_cron"]
  /\ UNCHANGED <<envVars, clerkUsers, dbUsers, req, loc, cvars, store, resp, hist>>

\* the count of active crons settles (subscription-validation.ts 302-328)
CronCountReturn(r) ==
  /\ pc[r] = "q_cron"
  /\ \/ ReturnWebhookUsage(r, [q[r] EXCEPT !.failed = @ \cup {<<"W", "crons">>}], FallbackNodex)
     \/ LET n == UsageOf(q[r].userId).crons
            qr == [q[r] EXCEPT !.cronCount = n]
            currentUsage == qr.whCount + n
        IN IF HasLimits(qr.winfo.plan)
                THEN ReturnWebhookUsage(r, qr,
                       Snap(Limits(qr.winfo.plan).webhookLimit, currentUsage))
                ELSE ReturnWebhookUsage(r, [qr EXCEPT !.failed = @ \cup {<<"W", "plan">>}],
                                        FallbackNodex)
  /\ UNCHANGED <<envVars, clerkUsers, dbUsers, req, loc, cvars, store, resp, hist>>

\* the monthlyUsageCount query settles (subscription-validation.ts 356-378)
ExecutionQueryReturn(r) ==
  /\ pc[r] = "q_exec"
  /\ \/ ReturnExecutionUsage(r, [q[r] EXCEPT !.failed = @ \cup {<<"E", "executions">>}],
                             FallbackBubbleLab)
     \/ LET n == UsageOf(q[r].userId).executions
            qr == [q[r] EXCEPT !.execCount = n]
        IN IF HasLimits(qr.einfo.plan)
                THEN ReturnExecutionUsage(r, qr,
                       Snap(Limits(qr.einfo.plan).executionLimit, n))
                ELSE ReturnExecutionUsage(r, [qr EXCEPT !.failed = @ \cup {<<"E", "plan">>}],
                                          FallbackBubbleLab)
  /\ UNCHANGED <<envVars, clerkUsers, dbUsers, req, loc, cvars, store, resp, hist>>

\* a plausible slip: only the credits snapshot falls back
MutAllFallback(qr) ==
  [qr EXCEPT !.credits = FallbackNodex]

\* the catch of getMonthlyLimitForPlan (subscription-validation.ts 169-182)
AllFallback(qr) ==
  [qr EXCEPT !.webhooks = FallbackNodex, !.executions = FallbackNodex,
             !.credits = FallbackNodex]

\* getTotalServiceCostForUser settles (subscription-validation.ts 152-182)
CostReturn(r) ==
  /\ pc[r] = "q_cost"
  /\ \/ Finish(r, AllFallback([q[r] EXCEPT !.failed = @ \cup {<<"M", "cost">>}]))
     \/ LET n == UsageOf(q[r].userId).cost
            qr == [q[r] EXCEPT !.cost = n]
        IN IF HasLimits(qr.info.plan)
                THEN Finish(r, [qr EXCEPT !.credits =
                                  Snap(Limits(qr.info.plan).creditLimit, n)])
                ELSE Finish(r, AllFallback([qr EXCEPT !.failed = @ \cup {<<"M", "plan">>}]))
  /\ UNCHANGED <<envVars, clerkUsers, dbUsers, req, loc, cvars, store, resp, hist>>

\* the steps of getUserSubscriptionInfo, taken only without a context
SubscriptionInfoSteps(r) ==
  \/ GusiDbReturn(r)
  \/ GusiClerkReturn(r)

UsageSteps(r) ==
  \/ WebhookCountReturn(r)
  \/ CronCountReturn(r)
  \/ ExecutionQueryReturn(r)
  \/ CostReturn(r)

\* the handler asks for the quota of the authenticated user
HandlerCallQuota(r) ==
  /\ pc[r] = "handler"
  /\ q[r].fn = "none"
  /\ \E fn \in {"M", "W"} : QuotaCall(r, fn, "handler", cvars[r].userId)
  /\ UNCHANGED <<envVars, clerkUsers, dbUsers, req, loc, cvars, store, resp, hist>>

\* code outside any request (no context established) asks for a quota
JobCallQuota(r) ==
  /\ pc[r] = "idle"
  /\ \E fn \in {"M", "W"}, userId \in Subjects : QuotaCall(r, fn, "job", userId)
  /\ UNCHANGED <<envVars, clerkUsers, dbUsers, req, loc, cvars, store, resp, hist>>

(***************************************************************************)
(* Requests and background jobs that resolve quotas                        *)
(***************************************************************************)
QuotaHeaders ==
  {NoToken,
   Jwt(Str(IssuerBubbleLab), "u1", Str(<<"u", ":", "pro_plan">>),
       Str(<<"u", ":", "base_usage", ",", "u", ":", "pro_usage">>), "good"),
   Jwt(Str(IssuerNodex), "u1", Undef, Undef, "good"),
   Jwt(Str(IssuerBubbleLab), "u1", Str(<<"u", ":", "enterprise">>), Undef, "good")}

UsageOptions ==
  {[webhooks |-> w, crons |-> c, executions |-> e, cost |-> e] :
     w \in 0..MaxCount, c \in 0..MaxCount, e \in {0, MaxCount}}
SomeUsage == [webhooks |-> 1, crons |-> MaxCount, executions |-> MaxCount, cost |-> MaxCount]

InitQuota ==
  /\ isDev = TRUE
  /\ secrets = AllTrue
  /\ clients \in ClientConfigs
  /\ \E u \in UserOptions, g \in UsageOptions :
       /\ u = PlainUser \/ g = SomeUsage
       /\ clerkUsers = [s \in Subjects |-> IF s = "u1" THEN u ELSE PlainUser]
       /\ usage = [s \in Subjects |-> IF s = "u1" THEN g ELSE NoUsage]
  /\ dbUsers \in {[s \in Subjects |-> Null], [s \in Subjects |-> "NODEX"]}
  /\ InitTasks

NextQuota ==
  \/ AuthStart("r1", QuotaHeaders, {NoHeader})
  \/ AuthSteps("r1")
  \/ HandlerCallQuota("r1")
  \/ JobCallQuota("r1")
  \/ SubscriptionInfoSteps("r1")
  \/ UsageSteps("r1")
  \/ HandlerReturn("r1")

SpecQuota == InitQuota /\ [][NextQuota]_vars

(***************************************************************************)
(* Properties of the quota resolvers                                       *)
(***************************************************************************)
QuotaSettled(r) == q[r].fn # "none" /\ pc[r] \in {"handler", "done"}
\* the failures the claim names: identity service, usage-count queries, cost
InfraFailure(tag) == tag[2] \in {"identity", "webhooks", "crons", "executions", "cost"}
UnlimitedLimits ==
  {APP_FEATURES_TO_MONTHLY_LIMITS[a].unlimited_usage : a \in AppType}
IsFallback(snap) == snap.limit \in UnlimitedLimits /\ snap.currentUsage = 0
Returned(r) ==
  IF q[r].fn = "W" THEN {q[r].webhooks}
  ELSE {q[r].webhooks, q[r].executions, q[r].credits}

\* C10 (as claimed): a resolver call during which the identity service, a
\* usage-count query or the cost-tracking call failed returns a snapshot with
\* the 'unlimited' fallback limit and currentUsage 0.
C10_AnyFailureYieldsFallback ==
  \A r \in Requests :
    (QuotaSettled(r) /\ \E tag \in q[r].failed : InfraFailure(tag)) =>
      /\ q[r].outcome = "returned"
      /\ \E snap \in Returned(r) : IsFallback(snap)

\* C10 (amended): the resolvers always return.  A failed usage-count query
\* or cost-tracking call yields the fallback snapshot for the affected kind
\* (all three kinds for the cost-tracking call); a failure of the identity
\* lookup alone yields the limit of the default plan pro_plus with the live
\* usage.
C10_FailOpenQuota ==
  \A r \in Requests :
    QuotaSettled(r) =>
      LET f == q[r].failed
          live == UsageOf(q[r].userId)
      IN  /\ q[r].outcome = "returned"
          /\ \A snap \in Returned(r) : snap.limit >= 0 /\ snap.currentUsage >= 0
          /\ (<<"W", "webhooks">> \in f \/ <<"W", "crons">> \in f) =>
               q[r].webhooks = Snap(100000, 0)
          /\ <<"M", "cost">> \in f =>
               \A snap \in Returned(r) : snap = Snap(100000, 0)
          /\ <<"E", "executions">> \in f =>
               q[r].executions \in {Snap(10000, 0), Snap(100000, 0)}
          /\ (f # {} /\ f \subseteq {<<"W", "db">>, <<"W", "identity">>}) =>
               q[r].webhooks = Snap(99999999, live.webhooks + live.crons)

C10_Witness ==
  \E r \in Requests :
    /\ QuotaSettled(r) /\ q[r].fn = "M" /\ q[r].caller = "job"
    /\ q[r].failed = {<<"W", "identity">>, <<"E", "executions">>}
    /\ q[r].webhooks.currentUsage = 1 + MaxCount

\* both count queries of getCurrentWebhookUsage have succeeded and the
\* snapshot it returned has not been replaced by getMonthlyLimitForPlan
BothCountsSucceeded(r) ==
  /\ q[r].whCount >= 0 /\ q[r].cronCount >= 0
  /\ \A tag \in q[r].failed : tag[1] # "M"

\* C11 (as claimed): when both count queries succeed, the webhook snapshot
\* has currentUsage = active webhooks + active crons of the subject, and its
\* limit is the webhookLimit of the resolved plan.
C11_WebhookUsageExact ==
  \A r \in Requests :
    BothCountsSucceeded(r) =>
      LET live == UsageOf(q[r].userId) IN
      /\ q[r].webhooks.currentUsage = live.webhooks + live.crons
      /\ HasLimits(q[r].winfo.plan) =>
           q[r].webhooks.limit = Limits(q[r].winfo.plan).webhookLimit

(***************************************************************************)
(* Two requests for different subjects, handled concurrently               *)
(***************************************************************************)
SubjectOf(r) == IF r = "r1" THEN "u1" ELSE "u2"

ConcHeaders(r) ==
  {NoToken,
   Jwt(Str(IF r = "r1" THEN IssuerBubbleLab ELSE IssuerNodex), SubjectOf(r),
       IF r = "r1" THEN Str(<<"u", ":", "pro_plan">>) ELSE Str(<<"free_user">>),
       Undef, "good")}
ConcXUserIds(r) == IF r = "r1" THEN {"tester-1"} ELSE {NoHeader}

InitConc ==
  /\ isDev \in BOOLEAN
  /\ secrets = AllTrue
  /\ clients = [k \in ClientKeys |-> TRUE]
  /\ clerkUsers =
       [s \in Subjects |->
          IF s = "u1" THEN User(Str(<<"unlimited">>), Arr(<< <<"pro_usage">> >>), Undef, Undef)
          ELSE PlainUser]
  /\ dbUsers = [s \in Subjects |-> Null]
  /\ usage = [s \in Subjects |-> IF s = "u1" THEN SomeUsage ELSE NoUsage]
  /\ InitTasks

NextConc ==
  \E r \in Requests :
    \/ AuthStart(r, ConcHeaders(r), ConcXUserIds(r))
    \/ AuthSteps(r)
    \/ HandlerCallQuota(r)
    \/ UsageSteps(r)
    \/ HandlerReturn(r)

SpecConc == InitConc /\ [][NextConc]_vars

\* the subject a request is handled for
OwnSubject(r) ==
  IF hist[r].path = "verified" THEN req[r].auth.sub
  ELSE HeaderValueOr(req[r].xuid, devUserId)

\* every context read made so far on behalf of request r
ContextReads(r) ==
  q[r].reads \cup (IF pc[r] = "done" /\ resp[r].status = 200
                     THEN {hist[r].observed} ELSE {})

WellFormedRecognized(token) ==
  /\ token.segs = 3 /\ token.decodes
  /\ ~UnrecognizedIssuer(token)

\* what authMiddleware shows of the detector's result: the tenant it went on
\* with, or Null when it rejected the credential as unresolved
DetectedTenant(r) ==
  IF resp[r] = [status |-> 401, error |-> AuthError(UnauthorizedAppMessage)]
       /\ hist[r].verifyCalls = 0
    THEN Null
    ELSE loc[r].appType

\* C12 (as claimed): a well-formed credential of a recognized issuer is
\* detected as the tenant of that issuer, and a credential of any other
\* structure as the default tenant.
C12_OtherStructuresDefault ==
  \A r \in Requests :
    (Started(r) /\ req[r].auth.kind = "jwt") =>
      IF WellFormedRecognized(req[r].auth)
        THEN DetectedTenant(r) = detectAppTypeFromIssuer(req[r].auth.iss.s)
        ELSE DetectedTenant(r) = "BUBBLE_LAB"

\* C12 (amended): a well-formed credential of a recognized issuer is detected
\* as the tenant of that issuer; a credential with a wrong segment count as
\* the default tenant BUBBLE_LAB; a three-segment credential whose payload
\* does not decode or whose issuer is unrecognized or missing is unresolved
\* (null), and the detector never throws.
C12_DetectAppType ==
  \A r \in Requests :
    LET token == req[r].auth IN
    (Started(r) /\ token.kind = "jwt") =>
      /\ WellFormedRecognized(token) =>
           DetectedTenant(r) = detectAppTypeFromIssuer(token.iss.s)
      /\ token.segs # 3 => DetectedTenant(r) = "BUBBLE_LAB"
      /\ (token.segs = 3 /\ ~WellFormedRecognized(token)) =>
           DetectedTenant(r) = Null /\ pc[r] = "done"

C12_Witness ==
  \E r \in Requests :
    /\ req[r].auth.kind = "jwt" /\ req[r].auth.segs = 2
    /\ loc[r].appType = "BUBBLE_LAB" /\ hist[r].verifyCalls = 1

\* the credential cannot be parsed: wrong segment count, or a middle segment
\* that is not base64url JSON
Unparseable(token) == token.kind = "jwt" /\ (token.segs # 3 \/ ~token.decodes)

RejectedUnrun(r) ==
  /\ pc[r] = "done" /\ Rejected(r)
  /\ hist[r].nextCalls = 0 /\ store[r] = NoIdentity

\* C13 (as claimed): an unparseable credential and a credential of an
\* unrecognized issuer are rejected in every environment and under every
\* secret configuration.
C13_UnparseableRejectedEverywhere ==
  \A r \in Requests :
    (Started(r) /\ pc[r] # "verify"
       /\ (Unparseable(req[r].auth) \/ UnrecognizedIssuer(req[r].auth))) =>
      RejectedUnrun(r)

\* C13 (amended): a three-segment credential whose payload does not decode
\* or whose issuer is unrecognized is rejected in every environment and under
\* every secret configuration.  A credential with a wrong segment count is
\* rejected in production and whenever the secret of the default tenant is
\* configured; in development without that secret it takes the Dev Bypass
\* and the handler runs.
C13_UnparseableRejected ==
  \A r \in Requests :
    LET token == req[r].auth IN
    (Started(r) /\ pc[r] # "verify" /\ token.kind = "jwt") =>
      /\ (token.segs = 3 /\ (~token.decodes \/ UnrecognizedIssuer(token))) =>
           RejectedUnrun(r) /\ hist[r].verifyCalls = 0
      /\ (token.segs # 3 /\ (~isDev \/ secrets["BUBBLE_LAB"])) => RejectedUnrun(r)
      /\ (token.segs # 3 /\ isDev /\ ~secrets["BUBBLE_LAB"]) =>
           /\ hist[r].path = "bypass" /\ hist[r].nextCalls = 1
           /\ ~Rejected(r)

C13_Witness ==
  \E r \in Requests :
    /\ isDev /\ secrets = AllFalse /\ pc[r] = "done"
    /\ req[r].auth.segs = 3 /\ ~req[r].auth.decodes /\ req[r].auth.kind = "jwt"
    /\ Rejected(r)

(***************************************************************************)
(* Properties of the Dev Bypass                                            *)
(***************************************************************************)
\* the handler of r has run inside a context holding exactly id
RanInContext(r, id) ==
  /\ hist[r].nextCalls = 1
  /\ hist[r].ctxAtNext = id
  /\ pc[r] = "handler" => store[r] = id
  /\ pc[r] = "done" => hist[r].observed = id /\ resp[r].status = 200

NoCredentialInDev(r) == Started(r) /\ isDev /\ req[r].auth.kind = "none"

OverrideLookupJustFailed(r) ==
  /\ hist[r].path = "verified" /\ pc[r] = "getUser2"
  /\ hist[r].infraFailures = 1

IsDefaultInfo(info) ==
  /\ info.plan = Str(<<"pro_plus">>)
  /\ info.features = Arr(<< <<"unlimited_usage">> >>)

\* the subscription info getUserSubscriptionInfo returned to the resolver
\* tagged who
InfoReturnedTo(r, who) ==
  CASE who = "M" -> q[r].info
    [] who = "W" -> q[r].winfo
    [] who = "E" -> q[r].einfo

\* C15 (as claimed, authMiddleware): when the identity-service lookup
\* throws, the identity is resolved with plan pro_plus and features
\* [unlimited_usage].
C15_LookupFailureYieldsDefaults ==
  \A r \in Requests :
    OverrideLookupJustFailed(r) =>
      /\ store[r].set
      /\ store[r].userPlan = Str(<<"pro_plus">>)
      /\ store[r].userFeatures = Arr(<< <<"unlimited_usage">> >>)

\* C15 (amended): when the identity-service lookup throws, resolution still
\* succeeds.  authMiddleware keeps the plan and features derived from the
\* claims; getUserSubscriptionInfo returns the defaults pro_plus and
\* [unlimited_usage].
C15_LookupFailureFailOpen ==
  \A r \in Requests :
    /\ OverrideLookupJustFailed(r) =>
         LET payload == VerifyPayload(req[r].auth) IN
         /\ ~Rejected(r)
         /\ store[r] = Identity(payload.sub, parseClerkPlan(payload.pla),
                                parseClerkFeatures(payload.fea), loc[r].appType)
    /\ \A who \in {"M", "W", "E"} :
         (<<who, "identity">> \in q[r].failed /\ pc[r] \notin {"q_gusi_db", "q_gusi_clerk"}) =>
           IsDefaultInfo(InfoReturnedTo(r, who))

C15_Witness ==
  \E r \in Requests :
    /\ OverrideLookupJustFailed(r)
    /\ req[r].auth.pla = Str(<<"u", ":", "pro_plan">>)
    /\ store[r].userPlan = Str(<<"pro_plan">>)

(***************************************************************************)
(* Two requests that differ only in the X-User-ID header                   *)
(***************************************************************************)
PairHeaders ==
  {NoToken,
   Jwt(Str(IssuerBubbleLab), "u1", Str(<<"u", ":", "pro_plan">>), Undef, "good"),
   Jwt(Str(IssuerNodex), "u1", Str(<<"u", ":", "pro_plan">>), Undef, "expired"),
   Jwt(Str(IssuerUnknown), "u1", Str(<<"u", ":", "pro_plan">>), Undef, "good")}

PairXUserIds(r) == IF r = "r1" THEN {NoHeader} ELSE {"", "tester-1"}

InitPair ==
  /\ isDev \in BOOLEAN
  /\ secrets \in {AllTrue, AllFalse}
  /\ clients = [k \in ClientKeys |-> TRUE]
  /\ clerkUsers =
       [s \in Subjects |->
          IF s = "u1" THEN User(Str(<<"unlimited">>), Arr(<< <<"pro_usage">> >>), Undef, Undef)
          ELSE PlainUser]
  /\ dbUsers = [s \in Subjects |-> Null]
  /\ usage = [s \in Subjects |-> NoUsage]
  /\ InitTasks

NextPair ==
  \E r \in Requests :
    \/ AuthStart(r, PairHeaders, PairXUserIds(r))
    \/ AuthSteps(r)
    \/ HandlerReturn(r)

SpecPair == InitPair /\ [][NextPair]_vars

\* the two requests carry the same Authorization header and have finished
SameCredentialDone(a, b) ==
  /\ a # b /\ req[a].auth = req[b].auth
  /\ pc[a] = "done" /\ pc[b] = "done"

\* C16: in production, two requests that differ only in the X-User-ID header
\* get the same response and the same resolved identity, and the subject of
\* every resolved identity is the sub claim of the verified credential.
C16_HeaderIgnoredInProduction ==
  ~isDev =>
    /\ \A a, b \in Requests :
         SameCredentialDone(a, b) =>
           /\ resp[a] = resp[b]
           /\ (hist[a].infraFailures = 0 /\ hist[b].infraFailures = 0) =>
                /\ hist[a].observed = hist[b].observed
                /\ cvars[a] = cvars[b]
    /\ \A r \in Requests :
         (pc[r] = "done" /\ resp[r].status = 200) =>
           /\ VerifyOk(req[r].auth)
           /\ hist[r].observed.userId = req[r].auth.sub
           /\ cvars[r].userId = req[r].auth.sub

C16_Witness ==
  /\ ~isDev /\ SameCredentialDone("r1", "r2")
  /\ req["r1"].xuid = NoHeader /\ req["r2"].xuid = "tester-1"
  /\ resp["r1"].status = 200 /\ resp["r2"].status = 200
  /\ hist["r1"].infraFailures = 0 /\ hist["r2"].infraFailures = 0

(***************************************************************************)
(* Properties of the claims parsers                                        *)
(***************************************************************************)
HasPrefix(x) == Len(x) >= 2 /\ x[1] = "u" /\ x[2] = ":"

\* out is x without its 'u:' prefix, or x itself when x has no prefix
Stripped(x, out) == IF HasPrefix(x) THEN x = <<"u", ":">> \o out ELSE x = out

\* the claims of request r have been turned into subscription info
ClaimsParsed(r) == hist[r].path = "verified"

\* C17 (as claimed): the plan is the plan claim without its prefix, the
\* features are the comma-separated pieces of the feature claim in their
\* order, each without its prefix, and a piece or plan that has no prefix
\* is returned unchanged.
C17_PrefixStrippedElseUnchanged ==
  \A r \in Requests :
    LET pla == req[r].auth.pla
        fea == req[r].auth.fea
        info == loc[r].subscriptionInfo
    IN  ClaimsParsed(r) =>
          /\ Truthy(pla) => Stripped(pla.s, info.plan.s)
          /\ Truthy(fea) =>
               LET pieces == SplitComma(fea.s, <<>>, <<>>) IN
               /\ Len(info.features.a) = Len(pieces)
               /\ \A i \in 1..Len(pieces) : Stripped(pieces[i], info.features.a[i])

\* C17 (amended): as claimed, except that each piece of the feature claim
\* is trimmed of surrounding whitespace before its prefix is stripped, so a
\* piece without the prefix is returned trimmed; the plan is not trimmed.
C17_ClaimsParsing ==
  \A r \in Requests :
    LET pla == req[r].auth.pla
        fea == req[r].auth.fea
        info == loc[r].subscriptionInfo
    IN  ClaimsParsed(r) =>
          /\ Truthy(pla) => Stripped(pla.s, info.plan.s)
          /\ Truthy(fea) =>
               LET pieces == SplitComma(fea.s, <<>>, <<>>) IN
               /\ Len(info.features.a) = Len(pieces)
               /\ \A i \in 1..Len(pieces) :
                    Stripped(Trim(pieces[i]), info.features.a[i])
          /\ (pla = Str(<<"u", ":", "pro_plan">>)
                /\ fea = Str(<<"u", ":", "base_usage", ",", "u", ":", "pro_usage">>)) =>
               /\ info.plan = Str(<<"pro_plan">>)
               /\ info.features = Arr(<< <<"base_usage">>, <<"pro_usage">> >>)

C17_Witness ==
  \E r \in Requests :
    /\ ClaimsParsed(r)
    /\ req[r].auth.pla = Str(<<"u", ":", "pro_plan">>)
    /\ req[r].auth.fea = Str(<<"u", ":", "base_usage", ",", "u", ":", "pro_usage">>)
    /\ loc[r].subscriptionInfo.features = Arr(<< <<"base_usage">>, <<"pro_usage">> >>)

Bridges == {"preload.ts", "packaged"}

\* electronAPI.send of preload.ts: validChannels
validSendChannels == {"app-ready", "request-backend-status"}
\* electronAPI.receive and electronAPI.removeListener of preload.ts:
\* validChannels (the same list is written twice)
validReceiveChannels == {"backend-status", "app-update"}
\* the packaged bridge: one list for send and on
ALLOWED_CHANNELS ==
  {"backend-status", "backend-error", "window-control", "app-info"}

\* channel names the renderer may pass: on both lists, on one, on none
Channels ==
  {"app-ready", "backend-status", "backend-error", "get-app-version",
   "evil-channel"}
\* callbacks of the renderer
Callbacks == {"cb1", "cb2"}
\* calls the renderer makes on the bridge in one run
MaxCalls == 3

\* a function value handed to ipcRenderer: the renderer's own callback, or
\* a fresh closure around it (two closures are never the same function)
Callback(cb) == [kind |-> "callback", cb |-> cb, serial |-> 0]
Closure(cb, n) == [kind |-> "closure", cb |-> cb, serial |-> n]
\* closures created so far are numbered by the registrations made
FreshSerial == Len(SelectSeq(ipcCalls, LAMBDA c : c[1] = "on")) + 1

\* ipcRenderer.send(channel, data)
IpcSend(channel) ==
  /\ ipcCalls' = Append(ipcCalls, <<"send", channel>>)
  /\ UNCHANGED listeners

\* ipcRenderer.on(channel, fn)
IpcOn(channel, fn) ==
  /\ ipcCalls' = Append(ipcCalls, <<"on", channel>>)
  /\ listeners' = Append(listeners, [fn |-> fn, channel |-> channel])

\* EventEmitter.removeListener: the most recently added instance of fn on
\* the channel is removed, if there is one
RemoveMostRecent(ls, channel, fn) ==
  LET at == {i \in 1..Len(ls) : ls[i] = [fn |-> fn, channel |-> channel]}
  IN  IF at = {} THEN ls
      ELSE LET m == CHOOSE i \in at : \A j \in at : j <= i
           IN  SubSeq(ls, 1, m - 1) \o SubSeq(ls, m + 1, Len(ls))

\* ipcRenderer.removeListener(channel, fn)
IpcRemoveListener(channel, fn) ==
  /\ ipcCalls' = Append(ipcCalls, <<"removeListener", channel>>)
  /\ listeners' = RemoveMostRecent(listeners, channel, fn)

\* the renderer calls a method of the bridge
Called(method, channel) ==
  /\ Len(apiCalls) < MaxCalls
  /\ apiCalls' = Append(apiCalls, <<method, channel>>)

\* preload.ts: electronAPI.send
Send(channel) ==
  /\ bridge = "preload.ts"
  /\ Called("send", channel)
  /\ IF channel \in validSendChannels
       THEN IpcSend(channel)
       ELSE UNCHANGED <<ipcCalls, listeners>>
  /\ UNCHANGED <<apiVars, mainVars, bridge, cleanups>>

\* preload.ts: electronAPI.receive
Receive(channel, cb) ==
  /\ bridge = "preload.ts"
  /\ Called("receive", channel)
  /\ IF channel \in validReceiveChannels
       THEN IpcOn(channel, Closure(cb, FreshSerial))
       ELSE UNCHANGED <<ipcCalls, listeners>>
  /\ UNCHANGED <<apiVars, mainVars, bridge, cleanups>>

\* the same without the allowlist
MutRemoveListener(channel, cb) ==
  /\ bridge = "preload.ts"
  /\ Called("removeListener", channel)
  /\ IpcRemoveListener(channel, Callback(cb))
  /\ UNCHANGED <<apiVars, mainVars, bridge, cleanups>>

\* preload.ts: electronAPI.removeListener
RemoveListener(channel, cb) ==
  /\ bridge = "preload.ts"
  /\ Called("removeListener", channel)
  /\ IF channel \in validReceiveChannels
       THEN IpcRemoveListener(channel, Callback(cb))
       ELSE UNCHANGED <<ipcCalls, listeners>>
  /\ UNCHANGED <<apiVars, mainVars, bridge, cleanups>>

\* the packaged bridge: electronAPI.send
PackagedSend(channel) ==
  /\ bridge = "packaged"
  /\ Called("send", channel)
  /\ IF channel \in ALLOWED_CHANNELS
       THEN IpcSend(channel)
       ELSE UNCHANGED <<ipcCalls, listeners>>
  /\ UNCHANGED <<apiVars, mainVars, bridge, cleanups>>

\* the packaged bridge: electronAPI.on, which returns a cleanup function:
\* one that removes the subscription, or one that does nothing
PackagedOn(channel, cb) ==
  /\ bridge = "packaged"
  /\ Called("on", channel)
  /\ IF channel \in ALLOWED_CHANNELS
       THEN LET subscription == Closure(cb, FreshSerial)
            IN  /\ IpcOn(channel, subscription)
                /\ cleanups' = cleanups \cup
                     {[fn |-> subscription, channel |-> channel,
                       removes |-> TRUE]}
       ELSE /\ UNCHANGED <<ipcCalls, listeners>>
            /\ cleanups' = cleanups \cup
                 {[fn |-> Callback(cb), channel |-> channel,
                   removes |-> FALSE]}
  /\ UNCHANGED <<apiVars, mainVars, bridge>>

\* the renderer calls a cleanup function it was given
PackagedCleanup(h) ==
  /\ bridge = "packaged"
  /\ h \in cleanups
  /\ Called("cleanup", h.channel)
  /\ IF h.removes
       THEN IpcRemoveListener(h.channel, h.fn)
       ELSE UNCHANGED <<ipcCalls, listeners>>
  /\ UNCHANGED <<apiVars, mainVars, bridge, cleanups>>

\* the server side at rest while the desktop shell is looked at
ApiIdle ==
  /\ isDev = FALSE
  /\ secrets = AllFalse
  /\ clients = [k \in ClientKeys |-> FALSE]
  /\ clerkUsers = [s \in Subjects |-> PlainUser]
  /\ dbUsers = [s \in Subjects |-> Null]
  /\ usage = [s \in Subjects |-> NoUsage]
  /\ ApiTasks
  /\ limitCall = NoLimitCall

\* a window has loaded one of the preload scripts; nothing was called yet
InitPreload ==
  /\ ApiIdle
  /\ MainIdle
  /\ bridge \in Bridges
  /\ apiCalls = <<>>
  /\ ipcCalls = <<>>
  /\ listeners = <<>>
  /\ cleanups = {}

NextPreload ==
  \/ \E channel \in Channels : Send(channel)
  \/ \E channel \in Channels, cb \in Callbacks : Receive(channel, cb)
  \/ \E channel \in Channels, cb \in Callbacks : RemoveListener(channel, cb)
  \/ \E channel \in Channels : PackagedSend(channel)
  \/ \E channel \in Channels, cb \in Callbacks : PackagedOn(channel, cb)
  \/ \E h \in cleanups : PackagedCleanup(h)

SpecPreload == InitPreload /\ [][NextPreload]_vars

\* ------------------------------------------------------------------
\* Properties of the preload bridge
\* ------------------------------------------------------------------

\* the call names an allowlisted channel of the method called (a cleanup
\* function stands for the on() call that returned it)
OnAllowlist(b, call) ==
  call[2] \in (CASE b = "preload.ts" /\ call[1] = "send" -> validSendChannels
                 [] b = "preload.ts" -> validReceiveChannels
                 [] OTHER -> ALLOWED_CHANNELS)

\* the ipcRenderer method a bridge method forwards to
IpcMethodOf(method) ==
  CASE method \in {"receive", "on"} -> "on"
    [] method \in {"removeListener", "cleanup"} -> "removeListener"
    [] OTHER -> "send"

\* the ipcRenderer calls the allowlisted calls among `calls` stand for
RECURSIVE ForwardedCalls(_, _)
ForwardedCalls(b, calls) ==
  IF calls = <<>> THEN <<>>
  ELSE LET c == Head(calls)
           rest == ForwardedCalls(b, Tail(calls))
       IN  IF OnAllowlist(b, c)
             THEN << <<IpcMethodOf(c[1]), c[2]>> >> \o rest
             ELSE rest

\* C19: the preload bridge enforces the channel allowlist: the calls made
\* on ipcRenderer are exactly the forwarded calls of the renderer that
\* name an allowlisted channel of the method called, in order; a call
\* with any other channel makes no ipcRenderer call, and no listener is
\* ever registered on a channel outside the allowlist.
C19_AllowlistEnforced ==
  /\ ipcCalls = ForwardedCalls(bridge, apiCalls)
  /\ \A i \in 1..Len(listeners) :
       OnAllowlist(bridge, <<"on", listeners[i].channel>>)
  /\ Len(listeners) <= Len(SelectSeq(ipcCalls, LAMBDA c : c[1] = "on"))

\* a blocked removeListener, then a forwarded receive and a forwarded
\* removeListener
C19_Witness ==
  /\ bridge = "preload.ts"
  /\ apiCalls = << <<"removeListener", "evil-channel">>,
                   <<"receive", "backend-status">>,
                   <<"removeListener", "backend-status">> >>
  /\ ipcCalls = << <<"on", "backend-status">>,
                   <<"removeListener", "backend-status">> >>

\* ------------------------------------------------------------------
\* The main process of the desktop shell: the backend is started and
\* probed, then the window is created. Three scripts are modelled: the one
\* that runs the backend with Bun and shows dialogs ("bun"), the one that
\* runs it with node and a health-check deadline ("node"), and the one of
\* apps/bubble-desktop that runs it with Bun and only logs ("desktop").
\* ------------------------------------------------------------------

MainScripts == {"bun", "node", "desktop"}
\* the scripts whose waitForBackend is the loop of maxRetries probes
BunScripts == {"bun", "desktop"}

\* waitForBackend(maxRetries = 30, ...), scaled down
maxRetries == 3
\* BACKEND_HEALTH_CHECK_TIMEOUT in units of BACKEND_HEALTH_CHECK_INTERVAL
\* (30000 ms / 500 ms), scaled down
HealthCheckTimeout == 3
\* a health check answers in no more than 1000 ms: two intervals
MaxCheckDuration == 2
\* windows created in one run
MaxWindows == 2

\* what a readiness probe can give: a 2xx answer, another answer, no answer
ProbeOutcomes == {"ok", "notOk", "throws"}

\* child_process.spawn and the exit handler registered on the child
SpawnBackend ==
  /\ backendProcess' = "running"
  /\ spawned' = TRUE

\* createWindow(): mainWindow = new BrowserWindow(...)
createWindow(creator) ==
  /\ mainWindow' = "window"
  /\ windows' = Append(windows,
       [spawned |-> spawned, probes |-> probes, probeOk |-> probeOk,
        timedOut |-> timedOut, creator |-> creator])

\* the same, spawning whether or not a runtime was found
MutStartBackend ==
  /\ mainScript = "bun"
  /\ mainPc = "launch"
  /\ IF ~backendExists
       THEN /\ mainPc' = "missingDialog"
            /\ UNCHANGED <<backendProcess, spawned>>
       ELSE /\ SpawnBackend
            /\ mainPc' = "probe"
  /\ UNCHANGED <<apiVars, preloadVars, stopVars, mainScript, backendExists, bunFound,
                 probes, probeOk, elapsed, timedOut, mainWindow, windows,
                 quitting>>

\* bun script, app.on('ready'): startBackend() up to its first await: a
\* dialog when the entrypoint or the runtime is missing, else the backend
\* is spawned and waitForBackend() begins
StartBackend ==
  /\ mainScript = "bun"
  /\ mainPc = "launch"
  /\ IF ~backendExists
       THEN /\ mainPc' = "missingDialog"
            /\ UNCHANGED <<backendProcess, spawned>>
       ELSE IF ~bunFound
         THEN /\ mainPc' = "bunDialog"
              /\ UNCHANGED <<backendProcess, spawned>>
         ELSE /\ SpawnBackend
              /\ mainPc' = "probe"
  /\ UNCHANGED <<apiVars, preloadVars, stopVars, mainScript, backendExists, bunFound,
                 probes, probeOk, elapsed, timedOut, mainWindow, windows,
                 quitting>>

\* desktop script, app.whenReady(): startBackend() up to its first await:
\* without a runtime it warns and returns, else the backend is spawned and
\* waitForBackend() begins
StartBackendDesktop ==
  /\ mainScript = "desktop"
  /\ mainPc = "launch"
  /\ IF ~bunFound
       THEN /\ mainPc' = "createWindow"
            /\ UNCHANGED <<backendProcess, spawned>>
       ELSE /\ SpawnBackend
            /\ mainPc' = "probe"
  /\ UNCHANGED <<apiVars, preloadVars, stopVars, mainScript, backendExists, bunFound,
                 probes, probeOk, elapsed, timedOut, mainWindow, windows,
                 quitting>>

\* bun script: the "Backend Not Found" dialog is answered: Exit (0) calls
\* app.quit(); either way startBackend returns
MissingDialogAnswered(response) ==
  /\ mainPc = "missingDialog"
  /\ quitting' = (quitting \/ response = 0)
  /\ mainPc' = "createWindow"
  /\ UNCHANGED <<apiVars, preloadVars, stopVars, mainScript, backendExists, bunFound,
                 backendProcess, spawned, probes, probeOk, elapsed, timedOut,
                 mainWindow, windows>>

\* bun script: the "Bun Runtime Not Found" dialog is closed; startBackend
\* returns
BunDialogClosed ==
  /\ mainPc = "bunDialog"
  /\ mainPc' = "createWindow"
  /\ UNCHANGED <<apiVars, preloadVars, stopVars, mainScript, backendExists, bunFound,
                 backendProcess, spawned, probes, probeOk, elapsed, timedOut,
                 mainWindow, windows, quitting>>

\* a plausible slip: a response that is ok does not end the loop
MutProbe(outcome) ==
  /\ mainScript \in BunScripts
  /\ mainPc = "probe"
  /\ outcome = "ok" => backendProcess = "running"
  /\ probes' = probes + 1
  /\ probeOk' = (probeOk \/ outcome = "ok")
  /\ mainPc' = "sleep"
  /\ UNCHANGED <<apiVars, preloadVars, stopVars, mainScript, backendExists,
                 bunFound, backendProcess, spawned, elapsed, timedOut,
                 mainWindow, windows, quitting>>

\* bun script, waitForBackend: one iteration's fetch; it returns when the
\* response is ok, else the iteration goes on to its delay
Probe(outcome) ==
  /\ mainScript \in BunScripts
  /\ mainPc = "probe"
  /\ outcome = "ok" => backendProcess = "running"
  /\ probes' = probes + 1
  /\ IF outcome = "ok"
       THEN probeOk' = TRUE /\ mainPc' = "createWindow"
       ELSE probeOk' = probeOk /\ mainPc' = "sleep"
  /\ UNCHANGED <<apiVars, preloadVars, stopVars, mainScript, backendExists, bunFound,
                 backendProcess, spawned, elapsed, timedOut, mainWindow,
                 windows, quitting>>

\* the same giving up after the first probe that fails
MutRetryDelay ==
  /\ mainScript \in BunScripts
  /\ mainPc = "sleep"
  /\ mainPc' = "createWindow"
  /\ UNCHANGED <<apiVars, preloadVars, stopVars, mainScript, backendExists, bunFound,
                 backendProcess, spawned, probes, probeOk, elapsed, timedOut,
                 mainWindow, windows, quitting>>

\* bun script, waitForBackend: the delay of an iteration ends and the loop
\* condition i < maxRetries is tested; after the loop the function warns
\* and returns
RetryDelay ==
  /\ mainScript \in BunScripts
  /\ mainPc = "sleep"
  /\ mainPc' = IF probes < maxRetries THEN "probe" ELSE "createWindow"
  /\ UNCHANGED <<apiVars, preloadVars, stopVars, mainScript, backendExists, bunFound,
                 backendProcess, spawned, probes, probeOk, elapsed, timedOut,
                 mainWindow, windows, quitting>>

\* node script, app.whenReady(): startBackend() spawns node, or spawn
\* throws and the error is logged; then waitForBackend() begins
StartBackendNode(spawnThrows) ==
  /\ mainScript = "node"
  /\ mainPc = "launch"
  /\ IF spawnThrows
       THEN UNCHANGED <<backendProcess, spawned>>
       ELSE SpawnBackend
  /\ mainPc' = "probe"
  /\ UNCHANGED <<apiVars, preloadVars, stopVars, mainScript, backendExists, bunFound,
                 probes, probeOk, elapsed, timedOut, mainWindow, windows,
                 quitting>>

\* node script, waitForBackend: checkHealth: one checkBackendHealth(), that
\* takes `duration`; healthy resolves, an unhealthy answer after the
\* deadline rejects, else the next check is scheduled
CheckHealth(isHealthy, duration) ==
  /\ mainScript = "node"
  /\ mainPc = "probe"
  /\ isHealthy => backendProcess = "running"
  /\ probes' = probes + 1
  /\ elapsed' = elapsed + duration
  /\ IF isHealthy
       THEN probeOk' = TRUE /\ timedOut' = timedOut /\ mainPc' = "createWindow"
       ELSE IF elapsed' > HealthCheckTimeout
         THEN probeOk' = probeOk /\ timedOut' = TRUE /\ mainPc' = "createWindow"
         ELSE probeOk' = probeOk /\ timedOut' = timedOut /\ mainPc' = "sleep"
  /\ UNCHANGED <<apiVars, preloadVars, stopVars, mainScript, backendExists, bunFound,
                 backendProcess, spawned, mainWindow, windows, quitting>>

\* node script: setTimeout(checkHealth, BACKEND_HEALTH_CHECK_INTERVAL) fires
HealthCheckInterval ==
  /\ mainScript = "node"
  /\ mainPc = "sleep"
  /\ elapsed' = elapsed + 1
  /\ mainPc' = "probe"
  /\ UNCHANGED <<apiVars, preloadVars, stopVars, mainScript, backendExists, bunFound,
                 backendProcess, spawned, probes, probeOk, timedOut,
                 mainWindow, windows, quitting>>

\* the ready handler after startBackend / waitForBackend has settled:
\* createWindow() (in the node script in the try block or in the catch
\* block)
ReadyCreateWindow ==
  /\ mainPc = "createWindow"
  /\ createWindow("ready")
  /\ mainPc' = "done"
  /\ UNCHANGED <<apiVars, preloadVars, stopVars, mainScript, backendExists, bunFound,
                 backendProcess, spawned, probes, probeOk, elapsed, timedOut,
                 quitting>>

\* app.on('activate'): a window is created when there is none. The bun
\* script registers the handler when it is loaded, the other scripts at
\* the end of their ready handlers
Activate ==
  /\ ~quitting
  /\ \/ mainScript = "bun" /\ mainPc # "launch"
     \/ mainScript \in {"node", "desktop"} /\ mainPc = "done"
  /\ Len(windows) < MaxWindows
  /\ IF mainWindow = "null"
       THEN createWindow("activate")
       ELSE UNCHANGED <<mainWindow, windows>>
  /\ UNCHANGED <<apiVars, preloadVars, stopVars, mainScript, mainPc, backendExists,
                 bunFound, backendProcess, spawned, probes, probeOk, elapsed,
                 timedOut, quitting>>

\* the window is closed: mainWindow.on('closed'), then
\* app.on('window-all-closed'): the bun script quits, the other scripts
\* quit except on macOS
WindowClosed(darwin) ==
  /\ mainWindow = "window"
  /\ mainWindow' = "null"
  /\ quitting' = (quitting \/ mainScript = "bun" \/ ~darwin)
  /\ UNCHANGED <<apiVars, preloadVars, stopVars, mainScript, mainPc, backendExists,
                 bunFound, backendProcess, spawned, probes, probeOk, elapsed,
                 timedOut, windows>>

\* the backend process exits: backendProcess.on('exit') of startBackend
\* sets backendProcess to null; the once('exit') listener of stopBackend,
\* when there is one, clears the timer and resolves the promise
BackendExit ==
  /\ backendProcess = "running"
  /\ backendProcess' = "null"
  /\ IF exitListener
       THEN /\ exitListener' = FALSE
            /\ forceKillTimeout' =
                 IF forceKillTimeout = "armed" THEN "cleared" ELSE forceKillTimeout
            /\ stopPc' = IF stopPc = "pending" THEN "resolved" ELSE stopPc
       ELSE UNCHANGED <<stopPc, forceKillTimeout, exitListener>>
  /\ UNCHANGED <<apiVars, preloadVars, killed, signals, stopCalls, mainScript,
                 mainPc, backendExists, bunFound, spawned, probes, probeOk,
                 elapsed, timedOut, mainWindow, windows, quitting>>

\* the app is launched with one of the scripts, on a machine where the
\* backend entrypoint and the Bun runtime are there or not
InitMain ==
  /\ ApiIdle
  /\ PreloadIdle
  /\ \E script \in MainScripts : MainLaunch(script)
  /\ backendExists \in BOOLEAN
  /\ bunFound \in BOOLEAN

NextMain ==
  \/ StartBackend
  \/ StartBackendDesktop
  \/ \E response \in {0, 1} : MissingDialogAnswered(response)
  \/ BunDialogClosed
  \/ \E outcome \in ProbeOutcomes : Probe(outcome)
  \/ RetryDelay
  \/ \E spawnThrows \in BOOLEAN : StartBackendNode(spawnThrows)
  \/ \E isHealthy \in BOOLEAN, duration \in 0..MaxCheckDuration :
       CheckHealth(isHealthy, duration)
  \/ HealthCheckInterval
  \/ ReadyCreateWindow
  \/ Activate
  \/ \E darwin \in BOOLEAN : WindowClosed(darwin)
  \/ BackendExit

SpecMain == InitMain /\ [][NextMain]_vars

\* ------------------------------------------------------------------
\* Properties of the startup of the desktop shell
\* ------------------------------------------------------------------

GaveUp(w) ==
  /\ ~w.probeOk
  /\ \/ mainScript \in BunScripts /\ w.spawned /\ w.probes = maxRetries
     \/ mainScript = "node" /\ w.timedOut /\ w.probes >= 1

\* startBackend had returned without a backend when the window was created
NoBackendStarted(w) ==
  /\ ~w.spawned
  /\ w.probes = 0
  /\ \/ mainScript = "bun" /\ (~backendExists \/ ~bunFound)
     \/ mainScript = "desktop" /\ ~bunFound

C21_BunMissingStillStarts ==
  (mainScript \in BunScripts /\ ~bunFound) =>
    /\ ~spawned
    /\ backendProcess = "null"
    /\ probes = 0
    /\ mainPc \notin {"probe", "sleep"}
    /\ mainPc = "done" =>
         \E i \in 1..Len(windows) :
           /\ windows[i].creator = "ready"
           /\ ~windows[i].spawned
           /\ windows[i].probes = 0

\* the entrypoint is there, the runtime is not, and the window is up
C21_Witness ==
  /\ mainScript = "bun"
  /\ backendExists
  /\ ~bunFound
  /\ mainPc = "done"
  /\ mainWindow = "window"
  /\ windows[1].creator = "ready"

(***************************************************************************)
(* Properties of the bypass for a tenant without a secret                  *)
(***************************************************************************)
\* a credential was supplied in development, its tenant was detected, and
\* no secret is configured for that tenant
SecretMissingInDev(r) ==
  /\ Started(r) /\ isDev
  /\ req[r].auth.kind = "jwt"
  /\ DetectedTenant(r) # Null
  /\ ~getSecretKeyForApp(DetectedTenant(r))

\* the tenant the credential stands for: the tenant of its issuer, and the
\* default tenant for a credential with a wrong segment count
TenantOfCredential(token) ==
  IF token.segs # 3 THEN "BUBBLE_LAB" ELSE detectAppTypeFromIssuer(token.iss.s)

\* C22 (as claimed): in development, a credential whose tenant is detected
\* but has no configured secret is not verified, and the handler runs in
\* a context of the detected tenant whose subject is the X-User-ID header
\* when the header is present, else the dev subject, with plan unlimited
\* and all three features.
C22_SecretlessBypassHeaderPresent ==
  \A r \in Requests :
    SecretMissingInDev(r) =>
      /\ hist[r].verifyCalls = 0
      /\ RanInContext(r,
           Identity(IF req[r].xuid # NoHeader THEN req[r].xuid ELSE devUserId,
                    Str(<<"unlimited">>),
                    Arr(<< <<"base_usage">>, <<"pro_usage">>, <<"unlimited_usage">> >>),
                    TenantOfCredential(req[r].auth)))

\* C22 (amended): the subject is the X-User-ID header when the header is
\* present and not empty, else the dev subject; the rest as claimed.
C22_SecretlessBypass ==
  \A r \in Requests :
    SecretMissingInDev(r) =>
      /\ hist[r].verifyCalls = 0
      /\ RanInContext(r,
           Identity(IF req[r].xuid \notin {NoHeader, ""} THEN req[r].xuid ELSE devUserId,
                    Str(<<"unlimited">>),
                    Arr(<< <<"base_usage">>, <<"pro_usage">>, <<"unlimited_usage">> >>),
                    TenantOfCredential(req[r].auth)))

C22_Witness ==
  \E r \in Requests :
    /\ SecretMissingInDev(r)
    /\ req[r].auth.iss = Str(IssuerNodex)
    /\ req[r].xuid = "tester-1"
    /\ pc[r] = "done"
    /\ hist[r].observed.appType = "NODEX"
    /\ hist[r].observed.userId = "tester-1"

(***************************************************************************)
(* Properties of the plan-only override                                    *)
(***************************************************************************)
\* the private metadata holds a plan of the plan set and no features list
PlanOnlyOverride(u) ==
  /\ u.exists
  /\ u.privPlan \in PLAN_TYPE
  /\ u.privFeatures = Undef

\* authMiddleware has looked the subject up, the lookup succeeded, and the
\* identity is established
OverrideLookedUp(r) ==
  /\ hist[r].path = "verified"
  /\ loc[r].clerkClient
  /\ hist[r].infraFailures = 0
  /\ pc[r] \in {"getUser2", "update", "upsert", "handler", "done"}

\* the identity of the request: in the context while the handler has not
\* returned, and what the handler saw afterwards
IdentityOf(r) == IF pc[r] = "done" THEN hist[r].observed ELSE store[r]

\* getUserSubscriptionInfo, called for getMonthlyLimitForPlan outside any
\* request, has returned what it resolved from the user record
ResolvedWithoutClaims(r) ==
  /\ q[r].caller = "job" /\ q[r].fn = "M"
  /\ q[r].info # NoInfo
  /\ q[r].appType # Null
  /\ getClerkClient(q[r].appType) \/ clerk
  /\ \A tag \in q[r].failed : tag[2] \notin {"db", "identity"}

\* C23: for a subject whose private metadata holds a non-empty plan of the
\* plan set and no features list, the identity authMiddleware establishes
\* after a successful lookup has the override plan and the features
\* derived from the claims, and a quota resolver that reads that context
\* gets the same; the claims-less resolution gives the override plan too.
C23_PlanOnlyOverride ==
  \A r \in Requests :
    /\ (OverrideLookedUp(r) /\ PlanOnlyOverride(clerkUsers[loc[r].userId])) =>
         /\ IdentityOf(r).userPlan = clerkUsers[loc[r].userId].privPlan
         /\ IdentityOf(r).userFeatures =
              extractSubscriptionInfoFromPayload(VerifyPayload(req[r].auth)).features
         /\ (q[r].caller = "handler" /\ q[r].fn = "M") =>
              /\ q[r].info.plan = clerkUsers[loc[r].userId].privPlan
              /\ q[r].info.features =
                   extractSubscriptionInfoFromPayload(VerifyPayload(req[r].auth)).features
    /\ (ResolvedWithoutClaims(r) /\ q[r].userId \in Subjects
          /\ PlanOnlyOverride(clerkUsers[q[r].userId])) =>
         q[r].info.plan = clerkUsers[q[r].userId].privPlan

\* claims pro_plan with two features, override free_user without features
C23_Witness ==
  \E r \in Requests :
    /\ OverrideLookedUp(r)
    /\ clerkUsers[loc[r].userId].privPlan = Str(<<"free_user">>)
    /\ clerkUsers[loc[r].userId].privFeatures = Undef
    /\ req[r].auth.pla = Str(<<"u", ":", "pro_plan">>)
    /\ pc[r] = "done"
    /\ hist[r].observed.userPlan = Str(<<"free_user">>)
    /\ hist[r].observed.userFeatures = Arr(<< <<"base_usage">>, <<"pro_usage">> >>)
    /\ q[r].fn = "M" /\ q[r].info.plan = Str(<<"free_user">>)

(***************************************************************************)
(* Properties of the resolvers reading the request context                 *)
(***************************************************************************)
\* the resolver is inside getUserSubscriptionInfo, or has been
ReResolved(r) ==
  \/ q[r].cur # "none"
  \/ q[r].idCalls > 0
  \/ pc[r] \in {"q_gusi_db", "q_gusi_clerk"}
  \/ \E tag \in q[r].failed : tag[2] \in {"db", "identity"}

\* C24: a quota resolver called where a request context holds a resolved
\* identity takes the identity from the context: it never enters
\* getUserSubscriptionInfo and never calls the identity service, every
\* subscription info it works with is the context's, and the limits
\* it returns when nothing fails are those of the context's plan.  A
\* resolver called where no context is established re-resolves the
\* identity through getUserSubscriptionInfo.
C24_ContextFirst ==
  \A r \in Requests :
    q[r].fn # "none" =>
      /\ q[r].caller = "handler" =>
           LET ctx == IdentityOf(r)
               plan == ctx.userPlan
           IN  /\ ctx.set
               /\ ~ReResolved(r)
               /\ q[r].reads = {ctx}
               /\ \A i \in {q[r].info, q[r].winfo, q[r].einfo} :
                    i = NoInfo \/ i = InfoFromContext(ctx)
               /\ (q[r].outcome = "returned" /\ q[r].failed = {}) =>
                    /\ HasLimits(plan)
                    /\ q[r].webhooks.limit = Limits(plan).webhookLimit
                    /\ q[r].fn = "M" =>
                         /\ q[r].executions.limit = Limits(plan).executionLimit
                         /\ q[r].credits.limit = Limits(plan).creditLimit
      /\ q[r].caller = "job" =>
           /\ ~store[r].set
           /\ q[r].cur # "none"

\* a verified pro_plan request whose handler got the limits of pro_plan
C24_Witness ==
  \E r \in Requests :
    /\ q[r].fn = "M" /\ q[r].caller = "handler"
    /\ q[r].outcome = "returned" /\ q[r].failed = {}
    /\ hist[r].path = "verified"
    /\ q[r].idCalls = 0
    /\ q[r].credits.limit = 20
    /\ q[r].webhooks.limit = 10
    /\ q[r].executions.limit = 3000

(***************************************************************************)
(* Properties of the fallback limits                                       *)
(***************************************************************************)
\* the 'unlimited_usage' allowance configured for a tenant
UnlimitedAllowance(appType) == APP_FEATURES_TO_MONTHLY_LIMITS[appType].unlimited_usage

\* the usage retrieval of a kind failed during the resolver call of r
UsageFailed(r, kind) ==
  CASE kind = "webhooks" ->
         <<"W", "webhooks">> \in q[r].failed \/ <<"W", "crons">> \in q[r].failed
    [] kind = "executions" -> <<"E", "executions">> \in q[r].failed
    [] kind = "credits" -> <<"M", "cost">> \in q[r].failed

\* C25 (as claimed): on a usage-retrieval failure the fallback limit of
\* each resource kind is the 'unlimited_usage' allowance configured for
\* the caller's own tenant, so the fallbacks of one caller are the same
\* for all three kinds.
C25_FallbackIsOwnTenantAllowance ==
  \A r \in Requests :
    QuotaSettled(r) =>
      /\ UsageFailed(r, "webhooks") =>
           q[r].webhooks.limit = UnlimitedAllowance(q[r].winfo.appType)
      /\ (q[r].fn = "M" /\ UsageFailed(r, "executions")) =>
           q[r].executions.limit = UnlimitedAllowance(q[r].einfo.appType)
      /\ (q[r].fn = "M" /\ UsageFailed(r, "credits")) =>
           q[r].credits.limit = UnlimitedAllowance(q[r].info.appType)
      /\ (q[r].fn = "M" /\ UsageFailed(r, "webhooks")
            /\ UsageFailed(r, "executions")) =>
           q[r].webhooks.limit = q[r].executions.limit

\* the snapshot of a kind, and the subscription info its limit is read from
SnapOf(r, kind) ==
  CASE kind = "webhooks" -> q[r].webhooks
    [] kind = "executions" -> q[r].executions
    [] kind = "credits" -> q[r].credits
InfoOf(r, kind) ==
  CASE kind = "webhooks" -> q[r].winfo
    [] kind = "executions" -> q[r].einfo
    [] kind = "credits" -> q[r].info
\* the limit successful resolution returns for a plan of the limits table
PlanLimit(plan, kind) ==
  CASE kind = "webhooks" -> Limits(plan).webhookLimit
    [] kind = "executions" -> Limits(plan).executionLimit
    [] kind = "credits" -> Limits(plan).creditLimit
\* the kinds a resolver call returns
KindsOf(r) == IF q[r].fn = "W" THEN {"webhooks"} ELSE {"webhooks", "executions", "credits"}

\* C26 (as claimed): for every plan and every resource kind the limit of
\* the failure fallback is greater than or equal to the limit successful
\* resolution returns for that plan.
C26_FallbackAtLeastPlanLimit ==
  \A r \in Requests : \A kind \in KindsOf(r) :
    (QuotaSettled(r) /\ UsageFailed(r, kind) /\ HasLimits(InfoOf(r, kind).plan)) =>
      SnapOf(r, kind).limit >= PlanLimit(InfoOf(r, kind).plan, kind)

\* C26 (amended): the failure fallback never blocks the caller: it reports
\* usage 0 against an 'unlimited_usage' allowance (10000 or 100000), and
\* its limit is greater than or equal to the plan's limit for every plan
\* and kind whose limit is not 99999999 (the webhook and execution limits
\* of pro_plus and all limits of unlimited are above the fallback).
C26_FallbackNeverBlocks ==
  \A r \in Requests : \A kind \in KindsOf(r) :
    (QuotaSettled(r) /\ UsageFailed(r, kind)) =>
      /\ SnapOf(r, kind).currentUsage = 0
      /\ SnapOf(r, kind).limit \in UnlimitedLimits
      /\ SnapOf(r, kind).currentUsage < SnapOf(r, kind).limit
      /\ (HasLimits(InfoOf(r, kind).plan)
            /\ PlanLimit(InfoOf(r, kind).plan, kind) # 99999999) =>
           SnapOf(r, kind).limit >= PlanLimit(InfoOf(r, kind).plan, kind)

\* the execution query failed for a pro_plan caller
C26_Witness ==
  \E r \in Requests :
    /\ QuotaSettled(r) /\ q[r].fn = "M"
    /\ q[r].failed = {<<"E", "executions">>}
    /\ q[r].einfo.plan = Str(<<"pro_plan">>)
    /\ q[r].executions = Snap(10000, 0)

(***************************************************************************)
(* Properties of getMonthlyLimitForPlan when one usage retrieval fails     *)
(***************************************************************************)
\* the live usage of a kind
LiveUsage(r, kind) ==
  LET live == UsageOf(q[r].userId) IN
  CASE kind = "webhooks" -> live.webhooks + live.crons
    [] kind = "executions" -> live.executions
    [] kind = "credits" -> live.cost

\* the snapshot of the kind is what it is without any failure: the limit
\* of the plan and the live usage
Unaffected(r, kind) ==
  /\ HasLimits(InfoOf(r, kind).plan)
  /\ SnapOf(r, kind) =
       Snap(PlanLimit(InfoOf(r, kind).plan, kind), LiveUsage(r, kind))

\* getMonthlyLimitForPlan has returned and the usage retrieval of `kind`,
\* and nothing else, failed
OnlyUsageFailed(r, kind) ==
  /\ QuotaSettled(r) /\ q[r].fn = "M"
  /\ UsageFailed(r, kind)
  /\ \A other \in {"webhooks", "executions", "credits"} \ {kind} :
       ~UsageFailed(r, other)
  /\ \A tag \in q[r].failed : tag[2] \notin {"plan", "db", "identity"}

\* C27 (as claimed): in getMonthlyLimitForPlan a failure while retrieving
\* the usage of one resource kind leaves the snapshots of the other two
\* kinds unchanged: the plan-derived limit and the live usage.
C27_OtherKindsUnchanged ==
  \A r \in Requests : \A kind \in {"webhooks", "executions", "credits"} :
    OnlyUsageFailed(r, kind) =>
      \A other \in {"webhooks", "executions", "credits"} \ {kind} :
        Unaffected(r, other)

\* C27 (amended): a failure while retrieving the webhook usage or the
\* execution usage leaves the snapshots of the other two kinds unchanged;
\* a failure while retrieving the credit usage replaces all three
\* snapshots by the fallback {100000, 0}.
C27_FrameOfUsageFailure ==
  \A r \in Requests :
    /\ \A kind \in {"webhooks", "executions"} :
         OnlyUsageFailed(r, kind) =>
           \A other \in {"webhooks", "executions", "credits"} \ {kind} :
             Unaffected(r, other)
    /\ OnlyUsageFailed(r, "credits") =>
         \A kind \in {"webhooks", "executions", "credits"} :
           SnapOf(r, kind) = Snap(100000, 0)

\* the webhook count failed; executions and credits carry live figures
C27_Witness ==
  \E r \in Requests :
    /\ OnlyUsageFailed(r, "webhooks")
    /\ q[r].webhooks = Snap(100000, 0)
    /\ q[r].executions = Snap(3000, MaxCount)
    /\ q[r].credits = Snap(20, MaxCount)

(***************************************************************************)
(* Properties of the claims-less resolution                                *)
(***************************************************************************)
\* a metadata value that is there and not empty
NonEmpty(v) ==
  CASE v.t = "str" -> v.s # <<>>
    [] v.t = "arr" -> v.a # <<>>
    [] v.t = "num" -> TRUE
    [] OTHER -> FALSE

\* C28 (as claimed): getUserSubscriptionInfo, for a user the identity
\* service returns, resolves each field by the chain private metadata,
\* public metadata, default: the plan is the private plan if non-empty,
\* else the public plan without its 'u:' prefix, else pro_plus; the
\* features are the private list if non-empty, else the public list, else
\* [unlimited_usage].
C28_OverrideChain ==
  \A r \in Requests :
    (ResolvedWithoutClaims(r) /\ q[r].userId \in Subjects
       /\ clerkUsers[q[r].userId].exists) =>
      LET u == clerkUsers[q[r].userId] IN
      /\ q[r].info.plan =
           IF NonEmpty(u.privPlan) THEN u.privPlan
           ELSE IF NonEmpty(u.pubPlan) THEN Str(StripPrefix(u.pubPlan.s))
           ELSE Str(<<"pro_plus">>)
      /\ q[r].info.features =
           IF NonEmpty(u.privFeatures) THEN u.privFeatures
           ELSE IF NonEmpty(u.pubFeatures) THEN u.pubFeatures
           ELSE Arr(<< <<"unlimited_usage">> >>)

(***************************************************************************)
(* Properties of the outcomes of authMiddleware                            *)
(***************************************************************************)
\* the four authenticity failures, read off the request and the configuration
NoCredentialInProd(r) == ~isDev /\ req[r].auth.kind = "none"
UnresolvedTenant(r) ==
  /\ req[r].auth.kind = "jwt" /\ detectAppType(req[r].auth) = Null
MissingSecretInProd(r) ==
  /\ ~isDev /\ req[r].auth.kind = "jwt"
  /\ detectAppType(req[r].auth) # Null
  /\ ~getSecretKeyForApp(detectAppType(req[r].auth))
VerificationFailed(r) ==
  /\ req[r].auth.kind = "jwt" /\ hist[r].verifyCalls = 1
  /\ ~VerifyOk(req[r].auth)
AuthenticityFailure(r) ==
  \/ NoCredentialInProd(r)
  \/ UnresolvedTenant(r)
  \/ MissingSecretInProd(r)
  \/ VerificationFailed(r)

\* C29: a request that authMiddleware rejects was rejected with no partial
\* processing: no getUser, no updateUserMetadata, no database upsert, no
\* userId/userPlan/userFeatures set on c, no context established and no
\* handler invocation happened for it, whichever of the four authenticity
\* failures caused the rejection.
C29_RejectedWithoutPartialProcessing ==
  \A r \in Requests :
    Rejected(r) =>
      /\ pc[r] = "done"
      /\ NothingConstructed(r)
      /\ hist[r].getUserCalls = 0
      /\ hist[r].updateCalls = 0
      /\ hist[r].upsertCalls = 0
      /\ hist[r].observed = NoIdentity
      /\ loc[r].clerkUser = NoUser
      /\ dbUsers = [s \in Subjects |-> Null]

\* a credential with a bad signature, for a tenant with a Clerk client
C29_Witness ==
  \E r \in Requests :
    /\ Rejected(r)
    /\ VerificationFailed(r)
    /\ req[r].auth.sig = "bad_signature"
    /\ getClerkClient(loc[r].appType)
    /\ cvars[r] = NoCvars

\* the handler ran once, inside a context that holds a resolved identity
HandlerInvokedInContext(r) ==
  /\ hist[r].nextCalls = 1
  /\ hist[r].ctxAtNext.set
  /\ hist[r].ctxAtNext.appType # Null
  /\ hist[r].ctxAtNext.userId # ""
Finished(r) == pc[r] = "done"

\* C30: every execution of authMiddleware ends in exactly one of two
\* outcomes: the handler was invoked exactly once inside a context that
\* holds a resolved identity (and observed that identity), or a 401 was
\* returned and the handler was never invoked.  The handler is never invoked
\* more than once nor without a context, and a 401 is returned only for one
\* of the four authenticity failures.
C30_ExactlyOneOutcome ==
  \A r \in Requests :
    /\ hist[r].nextCalls <= 1
    /\ hist[r].nextCalls = 1 => HandlerInvokedInContext(r) /\ ~Rejected(r)
    /\ Rejected(r) =>
         /\ Finished(r)
         /\ hist[r].nextCalls = 0
         /\ AuthenticityFailure(r)
    /\ (Finished(r) /\ ~Rejected(r)) =>
         /\ resp[r].status = 200
         /\ HandlerInvokedInContext(r)
         /\ hist[r].observed = hist[r].ctxAtNext
         /\ ~NoCredentialInProd(r) /\ ~UnresolvedTenant(r)
         /\ ~MissingSecretInProd(r) /\ ~VerificationFailed(r)

\* a verified request whose override lookup and upsert both ran before the
\* single handler invocation
C30_Witness ==
  \E r \in Requests :
    /\ Finished(r)
    /\ HandlerInvokedInContext(r)
    /\ hist[r].verifyCalls = 1
    /\ hist[r].getUserCalls = 2
    /\ hist[r].upsertCalls = 1
    /\ hist[r].infraFailures > 0

(***************************************************************************)
(* getSubscriptionInfo (auth.ts 315-343)                                   *)
(***************************************************************************)
SubInfo(plan, features) == [plan |-> plan, features |-> features, threw |-> FALSE]
SubInfoThrows == [plan |-> Undef, features |-> Undef, threw |-> TRUE]

\* a plausible slip: the dev defaults are returned in every mode
MutGetSubscriptionInfo(r, withContext) ==
  IF withContext
    THEN SubInfo(cvars[r].userPlan, cvars[r].userFeatures)
    ELSE LET contextInfo == getCurrentUserInfo(r) IN
         IF contextInfo.set
           THEN SubInfo(contextInfo.userPlan, contextInfo.userFeatures)
           ELSE SubInfo(devUserPlan, devUserFeatures)

\* getSubscriptionInfo(c) when withContext, getSubscriptionInfo() otherwise,
\* called by task r
getSubscriptionInfo(r, withContext) ==
  IF withContext
    THEN SubInfo(cvars[r].userPlan, cvars[r].userFeatures)
    ELSE LET contextInfo == getCurrentUserInfo(r) IN
         IF contextInfo.set
           THEN SubInfo(contextInfo.userPlan, contextInfo.userFeatures)
           ELSE IF isDev THEN SubInfo(devUserPlan, devUserFeatures)
                         ELSE SubInfoThrows

\* the handler of request r calls getSubscriptionInfo(c) and
\* getSubscriptionInfo()
HandlerGetsSubscriptionInfo(r) ==
  /\ pc[r] = "handler"
  /\ subInfo[r] = NoSubInfo
  /\ subInfo' = [subInfo EXCEPT ![r] =
        [caller |-> "handler",
         withC |-> getSubscriptionInfo(r, TRUE),
         ambient |-> getSubscriptionInfo(r, FALSE)]]
  /\ UNCHANGED <<isDev, secrets, clients, usage, limitCall, preloadVars, mainVars>>
  /\ UNCHANGED <<clerkUsers, dbUsers, pc, req, loc, cvars, store, resp, hist, q>>

\* code outside any request calls getSubscriptionInfo()
JobGetsSubscriptionInfo(r) ==
  /\ pc[r] = "idle"
  /\ subInfo[r] = NoSubInfo
  /\ subInfo' = [subInfo EXCEPT ![r] =
        [caller |-> "job",
         withC |-> NotCalled,
         ambient |-> getSubscriptionInfo(r, FALSE)]]
  /\ UNCHANGED <<isDev, secrets, clients, usage, limitCall, preloadVars, mainVars>>
  /\ UNCHANGED <<clerkUsers, dbUsers, pc, req, loc, cvars, store, resp, hist, q>>

\* the credentials of the requests whose handler asks for its subscription
InfoHeaders ==
  {NoToken}
  \cup {t \in GoodTokens : t.sub = "u1"}
  \cup {t \in BadSigTokens : t.sig = "expired"}

\* request r1 goes through authMiddleware and its handler asks for the
\* subscription; task r2 is a job outside any request
NextInfo ==
  \/ AuthStart("r1", InfoHeaders, XUserIds)
  \/ AuthSteps("r1")
  \/ HandlerReturn("r1")
  \/ HandlerGetsSubscriptionInfo("r1")
  \/ JobGetsSubscriptionInfo("r2")

SpecInfo == Init /\ [][NextInfo]_vars

\* C31: while the handler of a request runs, the identity set on the
\* framework context c equals, field by field, the identity in the ambient
\* request context, so getSubscriptionInfo(c) and getSubscriptionInfo()
\* return the same plan and features.
C31_ContextsAgree ==
  \A r \in Requests :
    /\ pc[r] = "handler" =>
         /\ store[r].set
         /\ cvars[r].userId = store[r].userId
         /\ cvars[r].userPlan = store[r].userPlan
         /\ cvars[r].userFeatures = store[r].userFeatures
         /\ cvars[r].appType = store[r].appType
    /\ subInfo[r].caller = "handler" =>
         /\ ~subInfo[r].withC.threw
         /\ subInfo[r].withC = subInfo[r].ambient

\* a verified request whose private metadata overrode the plan of the claims
C31_Witness ==
  \E r \in Requests :
    /\ subInfo[r].caller = "handler"
    /\ hist[r].path = "verified"
    /\ loc[r].finalPlan # loc[r].subscriptionInfo.plan
    /\ subInfo[r].ambient.plan = loc[r].finalPlan

(***************************************************************************)
(* A request during which the subject's metadata is edited                 *)
(***************************************************************************)
\* somebody edits the metadata of the subject of request r in the identity
\* service after the context of r was established
MetadataEdited(r) ==
  /\ store[r].set
  /\ pc[r] \in {"getUser2", "update", "upsert", "handler"}
  /\ \E u \in UserOptions :
       /\ u.exists
       /\ u # clerkUsers[loc[r].userId]
       /\ clerkUsers' = [clerkUsers EXCEPT ![loc[r].userId] = u]
  /\ UNCHANGED <<envVars, dbUsers, pc, req, loc, cvars, store, resp, hist, q>>

EditHeaders ==
  {Jwt(Str(IssuerBubbleLab), "u1", p, Undef, "good") :
     p \in {Undef, Str(<<"u", ":", "pro_plan">>)}}

InitEdit ==
  /\ isDev = FALSE
  /\ secrets = AllTrue
  /\ clients = [k \in ClientKeys |-> TRUE]
  /\ \E u \in UserOptions :
       clerkUsers = [s \in Subjects |-> IF s = "u1" THEN u ELSE PlainUser]
  /\ dbUsers = [s \in Subjects |-> Null]
  /\ usage = [s \in Subjects |-> NoUsage]
  /\ InitTasks

NextEdit ==
  \/ AuthStart("r1", EditHeaders, {NoHeader})
  \/ AuthSteps("r1")
  \/ MetadataEdited("r1")
  \/ HandlerReturn("r1")

SpecEdit == InitEdit /\ [][NextEdit]_vars

\* C32: the identity of a request is put into the request context once and
\* no later step of the request changes it: the second getUser, the
\* metadata update, the upsert and the handler leave it as it was
\* established, also when the subject's metadata is edited in between; it
\* is dropped only when the handler returns.
C32_IdentityImmutable ==
  [][\A r \in Requests :
       /\ store[r].set =>
            \/ store'[r] = store[r]
            \/ pc[r] = "handler" /\ pc'[r] = "done" /\ store'[r] = NoIdentity
       /\ (store[r].set /\ pc'[r] = "done") =>
            /\ hist'[r].observed = store[r]
            /\ hist'[r].observed.userPlan = loc[r].finalPlan
            /\ hist'[r].observed.userFeatures = loc[r].finalFeatures
       /\ (~store[r].set /\ store'[r].set) => hist[r].nextCalls = 0]_vars

\* the second fetch saw a private plan that the first fetch did not, and
\* the handler still observed the identity of the first fetch
C32_Witness ==
  \E r \in Requests :
    /\ pc[r] = "done" /\ resp[r].status = 200
    /\ hist[r].getUserCalls = 2 /\ hist[r].infraFailures = 0
    /\ loc[r].clerkUser.privPlan = Str(<<"free_user">>)
    /\ hist[r].observed.set
    /\ hist[r].observed.userPlan # Str(<<"free_user">>)

(***************************************************************************)
(* Two requests of one subject and the public-metadata sync                *)
(***************************************************************************)
SyncHeaders ==
  {Jwt(Str(IssuerBubbleLab), "u1", p, f, "good") :
     p \in {Undef, Str(<<"u", ":", "pro_plan">>)},
     f \in {Undef, Str(<<"u", ":", "pro_usage", ",", " ">>)}}
PubOtherOptions == {"kept", "theme"}

InitSync ==
  /\ isDev = FALSE
  /\ secrets = AllTrue
  /\ clients = [k \in ClientKeys |-> TRUE]
  /\ \E u \in UserOptions, o \in PubOtherOptions :
       clerkUsers = [s \in Subjects |->
                       IF s = "u1" THEN [u EXCEPT !.pubOther = o] ELSE PlainUser]
  /\ dbUsers = [s \in Subjects |-> Null]
  /\ usage = [s \in Subjects |-> NoUsage]
  /\ InitTasks

NextSync ==
  \E r \in Requests :
    \/ AuthStart(r, SyncHeaders, {NoHeader})
    \/ AuthSteps(r)
    \/ HandlerReturn(r)

SpecSync == InitSync /\ [][NextSync]_vars

\* the public plan or features of the user differ from the claims-derived ones
PublicDiffers(r) ==
  LET u == clerkUsers[loc[r].userId] IN
  \/ u.pubPlan # loc[r].subscriptionInfo.plan
  \/ u.pubFeatures # loc[r].subscriptionInfo.features
SameClaims(r1, r2) ==
  /\ req[r1].auth.kind = "jwt" /\ req[r2].auth.kind = "jwt"
  /\ req[r1].auth.iss = req[r2].auth.iss
  /\ req[r1].auth.sub = req[r2].auth.sub
  /\ req[r1].auth.pla = req[r2].auth.pla
  /\ req[r1].auth.fea = req[r2].auth.fea
\* the sync of request r went through: no update was needed or it succeeded
SyncDone(r) == hist[r].upsertCalls = 1

\* C33: updateUserMetadata is called only when the public plan or features
\* differ from the claims-derived values; it writes the claims-derived plan
\* and features and leaves the private metadata and the other public keys
\* as they are; once the sync of one request went through, a request with
\* the same claims performs no metadata update.
C33_SyncIdempotent ==
  [][\A r \in Requests :
       /\ (pc[r] = "getUser2" /\ pc'[r] = "update") => PublicDiffers(r)
       /\ (pc[r] = "update" /\ pc'[r] = "upsert") =>
            clerkUsers'[loc[r].userId] =
              [clerkUsers[loc[r].userId] EXCEPT
                 !.pubPlan = loc[r].subscriptionInfo.plan,
                 !.pubFeatures = loc[r].subscriptionInfo.features]
       /\ \A r2 \in Requests \ {r} :
            (pc[r] = "getUser2" /\ SameClaims(r, r2) /\ SyncDone(r2)) =>
              pc'[r] # "update"]_vars

\* the first request wrote the claims-derived plan although a private plan
\* overrides it; the second request, with the same claims, fetched the user
\* afterwards and went on without an update
C33_Witness ==
  \E r1, r2 \in Requests :
    /\ r1 # r2 /\ SameClaims(r1, r2)
    /\ hist[r1].updateCalls = 1 /\ SyncDone(r1)
    /\ hist[r2].updateCalls = 0 /\ SyncDone(r2)
    /\ loc[r2].clerkUser.pubPlan = loc[r2].subscriptionInfo.plan
    /\ loc[r2].clerkUser.pubPlan # loc[r2].finalPlan
    /\ loc[r1].clerkUser.pubPlan # loc[r1].subscriptionInfo.plan
    /\ clerkUsers[loc[r1].userId].pubOther = "theme"

\* C34: getSubscriptionInfo() called without a Context and outside any
\* request context returns plan 'unlimited' with all three features in
\* development and throws in production; in production it never returns
\* an identity that no request established.
C34_NoContextDefaultsOrThrows ==
  \A r \in Requests :
    /\ subInfo[r].caller = "job" =>
         /\ subInfo[r].withC = NotCalled
         /\ IF isDev
              THEN subInfo[r].ambient =
                     SubInfo(Str(<<"unlimited">>),
                             Arr(<< <<"base_usage">>, <<"pro_usage">>,
                                    <<"unlimited_usage">> >>))
              ELSE subInfo[r].ambient = SubInfoThrows
    /\ (~isDev /\ subInfo[r].caller # "none" /\ ~subInfo[r].ambient.threw) =>
         /\ subInfo[r].caller = "handler"
         /\ hist[r].nextCalls = 1
         /\ subInfo[r].ambient.plan = hist[r].ctxAtNext.userPlan
         /\ subInfo[r].ambient.features = hist[r].ctxAtNext.userFeatures

\* in production a job asks for the subscription while a request is in its
\* handler with a context of its own, and the call throws
C34_Witness ==
  \E r, r2 \in Requests :
    /\ ~isDev
    /\ subInfo[r].caller = "job" /\ subInfo[r].ambient.threw
    /\ pc[r2] = "handler" /\ store[r2].set

\* ------------------------------------------------------------------
\* stopBackend of the bun script, called by app.on('before-quit')
\* ------------------------------------------------------------------
\* calls of stopBackend in one run
MaxStops == 2
\* ChildProcess.kill(signal): the signal was delivered (kill returns true
\* and sets .killed), it could not be delivered (returns false), or the
\* call throws
KillOutcomes == {"sent", "notSent", "throws"}

\* backendProcess.kill(signal) with the given outcome
Kill(signal, outcome) ==
  IF outcome = "sent"
    THEN /\ signals' = Append(signals, signal)
         /\ killed' = TRUE
    ELSE UNCHANGED <<signals, killed>>

\* app.on('before-quit'): stopBackend() runs the executor of its promise:
\* nothing to stop or already signalled resolves at once; else the timer is
\* set, the exit listener registered and SIGTERM sent; a throwing kill
\* clears the timer and resolves
BeforeQuit(outcome) ==
  /\ mainScript = "bun"
  /\ quitting
  /\ stopPc # "pending"
  /\ stopCalls < MaxStops
  /\ stopCalls' = stopCalls + 1
  /\ IF backendProcess = "null" \/ killed
       THEN /\ stopPc' = "resolved"
            /\ UNCHANGED <<killed, signals, forceKillTimeout, exitListener>>
       ELSE /\ exitListener' = TRUE
            /\ Kill("SIGTERM", outcome)
            /\ IF outcome = "throws"
                 THEN forceKillTimeout' = "cleared" /\ stopPc' = "resolved"
                 ELSE forceKillTimeout' = "armed" /\ stopPc' = "pending"
  /\ UNCHANGED <<apiVars, preloadVars, mainScript, mainPc, backendExists,
                 bunFound, backendProcess, spawned, probes, probeOk, elapsed,
                 timedOut, mainWindow, windows, quitting>>

\* a plausible slip: the timer resolves the promise only when it force kills
MutForceKillTimeout(outcome) ==
  /\ forceKillTimeout = "armed"
  /\ forceKillTimeout' = "fired"
  /\ IF backendProcess # "null" /\ ~killed
       THEN /\ Kill("SIGKILL", outcome)
            /\ stopPc' = IF stopPc = "pending" THEN "resolved" ELSE stopPc
       ELSE UNCHANGED <<killed, signals, stopPc>>
  /\ UNCHANGED <<apiVars, preloadVars, exitListener, stopCalls, mainScript,
                 mainPc, backendExists, bunFound, backendProcess, spawned,
                 probes, probeOk, elapsed, timedOut, mainWindow, windows,
                 quitting>>

\* the 5 second timer of stopBackend fires: SIGKILL when there is a backend
\* process and it is not .killed, a throwing kill is logged; then resolve()
ForceKillTimeout(outcome) ==
  /\ forceKillTimeout = "armed"
  /\ forceKillTimeout' = "fired"
  /\ IF backendProcess # "null" /\ ~killed
       THEN Kill("SIGKILL", outcome)
       ELSE UNCHANGED <<killed, signals>>
  /\ stopPc' = IF stopPc = "pending" THEN "resolved" ELSE stopPc
  /\ UNCHANGED <<apiVars, preloadVars, exitListener, stopCalls, mainScript,
                 mainPc, backendExists, bunFound, backendProcess, spawned,
                 probes, probeOk, elapsed, timedOut, mainWindow, windows,
                 quitting>>

\* the bun script on a machine where the backend can be started or not
InitStop ==
  /\ ApiIdle
  /\ PreloadIdle
  /\ MainLaunch("bun")
  /\ backendExists \in BOOLEAN
  /\ bunFound \in BOOLEAN

NextStop ==
  \/ StartBackend
  \/ \E response \in {0, 1} : MissingDialogAnswered(response)
  \/ BunDialogClosed
  \/ \E outcome \in ProbeOutcomes : Probe(outcome)
  \/ RetryDelay
  \/ ReadyCreateWindow
  \/ Activate
  \/ \E darwin \in BOOLEAN : WindowClosed(darwin)
  \/ BackendExit
  \/ \E outcome \in KillOutcomes : BeforeQuit(outcome)
  \/ \E outcome \in KillOutcomes : ForceKillTimeout(outcome)

SpecStop == InitStop /\ [][NextStop]_vars

Sent(signal) == \E i \in 1..Len(signals) : signals[i] = signal

\* C35 as stated: when the timer of stopBackend has fired, that is the
\* backend had not exited 5 seconds after SIGTERM was sent to it, SIGKILL
\* was sent to it.
C35_ForceKillAfterTimeout ==
  (forceKillTimeout = "fired" /\ Sent("SIGTERM")) => Sent("SIGKILL")

\* timers of a running event loop fire: the 5 second timer of stopBackend
\* is not postponed forever
SpecStopLive ==
  /\ SpecStop
  /\ WF_vars(\E outcome \in KillOutcomes : ForceKillTimeout(outcome))

\* C36: the promise of every stopBackend() call is resolved, at once or
\* eventually, whether there is no backend, it was signalled already, it
\* exits after SIGTERM, it never exits, or sending SIGTERM throws; it is
\* never left pending.
C36_StopAlwaysResolves ==
  /\ [](stopCalls > 0 => stopPc \in {"pending", "resolved"})
  /\ [](stopPc = "pending" => forceKillTimeout = "armed")
  /\ (stopPc = "pending") ~> (stopPc = "resolved")

\* the backend got SIGTERM and never exited: the timer resolved the promise
C36_Witness ==
  /\ stopPc = "resolved"
  /\ forceKillTimeout = "fired"
  /\ Sent("SIGTERM")
  /\ backendProcess = "running"

\* ------------------------------------------------------------------
\* Termination of waitForBackend
\* ------------------------------------------------------------------
\* a fetch settles, the delay timer of an iteration fires and the ready
\* handler goes on after its await
SpecMainLive ==
  /\ SpecMain
  /\ WF_vars(\E outcome \in ProbeOutcomes : Probe(outcome))
  /\ WF_vars(RetryDelay)
  /\ WF_vars(ReadyCreateWindow)

Waiting == mainScript \in BunScripts /\ mainPc \in {"probe", "sleep"}
WaitReturned == mainPc \in {"createWindow", "done"}

\* C37: waitForBackend (loop of the bun and desktop scripts) makes at most
\* maxRetries probes, makes no probe after one that succeeded, and always
\* returns: with a success, or after maxRetries failures without throwing,
\* and the ready handler goes on to create the window.
C37_WaitForBackendTerminates ==
  /\ [](mainScript \in BunScripts => probes <= maxRetries)
  /\ [][(mainScript \in BunScripts /\ probeOk) => probes' = probes]_vars
  /\ [](Waiting => ~probeOk)
  /\ []((mainScript \in BunScripts /\ spawned /\ WaitReturned) =>
          (probeOk \/ probes = maxRetries))
  /\ Waiting ~> (mainPc = "createWindow")
  /\ Waiting ~> (mainPc = "done" /\ Len(windows) > 0)

\* the desktop script's backend never answered: maxRetries probes, then the
\* window
C37_Witness ==
  /\ mainScript = "desktop" /\ mainPc = "done"
  /\ spawned /\ ~probeOk /\ probes = maxRetries
  /\ Len(windows) = 1 /\ windows[1].probes = maxRetries

\* ------------------------------------------------------------------
\* receive and removeListener of the preload bridge
\* ------------------------------------------------------------------
\* the listeners registered on the channel that invoke callback cb
ListenersFor(ls, channel, cb) ==
  {i \in 1..Len(ls) : ls[i].channel = channel /\ ls[i].fn.cb = cb}

\* C38 as stated: removeListener(channel, callback) on an allowlisted
\* channel undoes receive(channel, callback): when one listener for the
\* callback was registered on the channel, none remains afterwards.
C38_RemoveListenerUndoesReceive ==
  [][\A channel \in validReceiveChannels, cb \in Callbacks :
       (/\ RemoveListener(channel, cb)
        /\ Cardinality(ListenersFor(listeners, channel, cb)) = 1)
       => ListenersFor(listeners', channel, cb) = {}]_vars

(***************************************************************************)
(* getMonthlyLimitForFeatures (subscription-validation.ts 384-420)         *)
(***************************************************************************)
\* feature lists given to the function: up to MaxFeatures names, one of
\* them not in the table
MaxFeatures == 3
FeatureArgs == FeatureNames \cup {"beta"}
FeatureLists == UNION {[1..n -> FeatureArgs] : n \in 0..MaxFeatures}

\* APP_FEATURES_TO_MONTHLY_LIMITS[appType][feature] || 0
LimitOrZero(appType, feature) ==
  IF feature \in DOMAIN APP_FEATURES_TO_MONTHLY_LIMITS[appType]
    THEN APP_FEATURES_TO_MONTHLY_LIMITS[appType][feature]
    ELSE 0

\* Math.max(...numbers)
MathMax(numbers) ==
  IF numbers = <<>> THEN NegInfinity
  ELSE JsNumber(CHOOSE m \in {numbers[i] : i \in 1..Len(numbers)} :
                  \A i \in 1..Len(numbers) : numbers[i] <= m)

getMonthlyLimitForFeatures(features, appType) ==
  MathMax([i \in 1..Len(features) |-> LimitOrZero(appType, features[i])])

\* the function is called with the arguments chosen
CallGetMonthlyLimitForFeatures ==
  /\ ~limitCall.called
  /\ limitCall.appType # Null
  /\ limitCall' = [limitCall EXCEPT
        !.called = TRUE,
        !.result = getMonthlyLimitForFeatures(limitCall.features,
                                              limitCall.appType)]
  /\ UNCHANGED <<isDev, secrets, clients, clerkUsers, dbUsers, usage, pc, req,
                 loc, cvars, store, resp, hist, q, subInfo, preloadVars,
                 mainVars>>

InitLimit ==
  /\ isDev = FALSE
  /\ secrets = AllFalse
  /\ clients = [k \in ClientKeys |-> FALSE]
  /\ clerkUsers = [s \in Subjects |-> PlainUser]
  /\ dbUsers = [s \in Subjects |-> Null]
  /\ usage = [s \in Subjects |-> NoUsage]
  /\ ApiTasks
  /\ PreloadIdle
  /\ MainIdle
  /\ \E a \in AppType, f \in FeatureLists :
       limitCall = [NoLimitCall EXCEPT !.appType = a, !.features = f]

NextLimit == CallGetMonthlyLimitForFeatures

SpecLimit == InitLimit /\ [][NextLimit]_vars

\* the allowances of the listed features in the tenant's table, a missing
\* feature counting as 0
AllowancesOf(features, appType) ==
  {LimitOrZero(appType, features[i]) : i \in 1..Len(features)}

\* C39 as stated: the result is the highest allowance among the listed
\* features, a feature missing from the table counting as 0, and it is a
\* non-negative number for every feature list, the empty list included.
C39_HighestAllowance ==
  limitCall.called =>
    /\ limitCall.result.finite
    /\ limitCall.result.n >= 0
    /\ \A x \in AllowancesOf(limitCall.features, limitCall.appType) :
         x <= limitCall.result.n
    /\ limitCall.features # <<>> =>
         limitCall.result.n \in AllowancesOf(limitCall.features, limitCall.appType)

====
